---------------------------- MODULE Spec2Model ----------------------------
(***************************************************************************)
(* A model of sshtab: the history log store (append / load / delete over   *)
(* flock-guarded line files), the alias store (locked read-modify-write    *)
(* with temp file and rename), and the exec validator.                     *)
(*                                                                         *)
(* Strings are sequences of byte values (0..255).  Files are byte          *)
(* sequences held in inodes; a directory entry names an inode, and flock   *)
(* locks belong to inodes, as on POSIX.                                    *)
(***************************************************************************)
EXTENDS Integers, Sequences, FiniteSets, TLC

(***************************************************************************)
(* Bounds of the model.                                                    *)
(***************************************************************************)
MaxLines == 3
ShortWrite == 4
MaxArgLen == 3
MaxTokLen == 4
MaxBytesLen == 4
MaxAliasCalls == 3

(***************************************************************************)
(* Byte values of the characters the code names.                           *)
(***************************************************************************)
Ch == [tab |-> 9, lf |-> 10, vt |-> 11, ff |-> 12, cr |-> 13, sp |-> 32,
       dq |-> 34, dollar |-> 36, amp |-> 38, sq |-> 39, lparen |-> 40,
       rparen |-> 41, plus |-> 43, minus |-> 45, slash |-> 47, zero |-> 48,
       nine |-> 57, semi |-> 59, lt |-> 60, eq |-> 61, gt |-> 62,
       upA |-> 65, upZ |-> 90, bslash |-> 92, bquote |-> 96, loA |-> 97,
       loZ |-> 122, bar |-> 124, del |-> 127]

Min(a, b) == IF a < b THEN a ELSE b

\* std::string::find(ch, from): the first index >= from holding ch, 0 for npos
\* (indices are 1-based here).
RECURSIVE Find(_, _, _)
Find(s, ch, from) ==
    IF from > Len(s) THEN 0
    ELSE IF s[from] = ch THEN from
    ELSE Find(s, ch, from + 1)

\* std::string::substr(pos) with a 1-based position.
Tail_(s, from) == SubSeq(s, from, Len(s))

\* operator< of std::string: lexicographic on unsigned bytes.
RECURSIVE StrLess(_, _)
StrLess(a, b) ==
    IF b = <<>> THEN FALSE
    ELSE IF a = <<>> THEN TRUE
    ELSE IF a[1] # b[1] THEN a[1] < b[1]
    ELSE StrLess(Tail(a), Tail(b))

(***************************************************************************)
(* Codec: Base64Encode / Base64Decode.                                     *)
(***************************************************************************)
\* The table with the URL-safe digits '-' and '_' for 62 and 63.
kTable_UrlSafe(i) ==
    IF i < 26 THEN Ch.upA + i
    ELSE IF i < 52 THEN Ch.loA + (i - 26)
    ELSE IF i < 62 THEN Ch.zero + (i - 52)
    ELSE IF i = 62 THEN Ch.minus
    ELSE 95

kTable(i) ==
    IF i < 26 THEN Ch.upA + i
    ELSE IF i < 52 THEN Ch.loA + (i - 26)
    ELSE IF i < 62 THEN Ch.zero + (i - 52)
    ELSE IF i = 62 THEN Ch.plus
    ELSE Ch.slash

RECURSIVE Base64Encode(_)
Base64Encode(input) ==
    IF Len(input) >= 3 THEN
        LET n == input[1] * 65536 + input[2] * 256 + input[3]
        IN  << kTable((n \div 262144) % 64), kTable((n \div 4096) % 64),
               kTable((n \div 64) % 64), kTable(n % 64) >>
            \o Base64Encode(SubSeq(input, 4, Len(input)))
    ELSE IF Len(input) = 1 THEN
        LET n == input[1] * 65536
        IN  << kTable((n \div 262144) % 64), kTable((n \div 4096) % 64),
               Ch.eq, Ch.eq >>
    ELSE IF Len(input) = 2 THEN
        LET n == input[1] * 65536 + input[2] * 256
        IN  << kTable((n \div 262144) % 64), kTable((n \div 4096) % 64),
               kTable((n \div 64) % 64), Ch.eq >>
    ELSE << >>

decode_char(c) ==
    IF c >= Ch.upA /\ c <= Ch.upZ THEN c - Ch.upA
    ELSE IF c >= Ch.loA /\ c <= Ch.loZ THEN c - Ch.loA + 26
    ELSE IF c >= Ch.zero /\ c <= Ch.nine THEN c - Ch.zero + 52
    ELSE IF c = Ch.plus THEN 62
    ELSE IF c = Ch.slash THEN 63
    ELSE -1

Pow2(n) == IF n = 0 THEN 1 ELSE IF n = 2 THEN 4 ELSE IF n = 4 THEN 16 ELSE 64

\* The decoding loop.  val keeps the low 24 bits of the C int: only bits
\* valb..valb+7 (valb <= 4) are ever read, so the wrap of val << 6 cannot
\* reach a bit that is used.
RECURSIVE DecodeLoop(_, _, _, _, _, _, _)
DecodeLoop(input, i, val, valb, pad, padding, out) ==
    IF i > Len(input) THEN
        IF pad > 2 THEN [ok |-> FALSE, out |-> << >>]
        ELSE [ok |-> TRUE, out |-> out]
    ELSE IF input[i] = Ch.eq THEN
        DecodeLoop(input, i + 1, val, valb, pad + 1, TRUE, out)
    ELSE IF padding THEN [ok |-> FALSE, out |-> << >>]
    ELSE IF decode_char(input[i]) < 0 THEN [ok |-> FALSE, out |-> << >>]
    ELSE
        LET v  == (val * 64 + decode_char(input[i])) % 16777216
            vb == valb + 6
        IN  IF vb >= 0
            THEN DecodeLoop(input, i + 1, v, vb - 8, pad, padding,
                            Append(out, (v \div Pow2(vb)) % 256))
            ELSE DecodeLoop(input, i + 1, v, vb, pad, padding, out)

Base64Decode(input) ==
    IF Len(input) % 4 # 0 THEN [ok |-> FALSE, out |-> << >>]
    ELSE DecodeLoop(input, 1, 0, -8, 0, FALSE, << >>)

(***************************************************************************)
(* Number formatting and parsing.                                          *)
(***************************************************************************)
RECURSIVE DecDigits(_)
DecDigits(n) ==
    IF n < 10 THEN << Ch.zero + n >>
    ELSE Append(DecDigits(n \div 10), Ch.zero + (n % 10))

\* operator<< of an integer on an ostream.
ToDec(n) == IF n < 0 THEN << Ch.minus >> \o DecDigits(0 - n) ELSE DecDigits(n)

\* std::isspace in the C locale.
IsSpaceC(c) == c \in {Ch.sp, Ch.tab, Ch.lf, Ch.vt, Ch.ff, Ch.cr}

IsDigit(c) == c >= Ch.zero /\ c <= Ch.nine

RECURSIVE SkipSpace(_, _)
SkipSpace(s, i) ==
    IF i <= Len(s) /\ IsSpaceC(s[i]) THEN SkipSpace(s, i + 1) ELSE i

RECURSIVE DigitsEnd(_, _)
DigitsEnd(s, i) ==
    IF i <= Len(s) /\ IsDigit(s[i]) THEN DigitsEnd(s, i + 1) ELSE i

RECURSIVE DigitsVal(_, _, _, _)
DigitsVal(s, i, j, acc) ==
    IF i >= j THEN acc ELSE DigitsVal(s, i + 1, j, acc * 10 + (s[i] - Ch.zero))

\* std::stoll / std::stoi (base 10) followed by the idx == size test: leading
\* white space is skipped, one sign is accepted, at least one digit is needed
\* and nothing may follow the digits.  Fields of the model have at most four
\* digits, so std::out_of_range cannot be thrown.
ParseInt64(s) ==
    LET i0   == SkipSpace(s, 1)
        neg  == i0 <= Len(s) /\ s[i0] = Ch.minus
        i1   == IF i0 <= Len(s) /\ s[i0] \in {Ch.minus, Ch.plus}
                THEN i0 + 1 ELSE i0
        i2   == DigitsEnd(s, i1)
        v    == DigitsVal(s, i1, i2, 0)
    IN  IF i2 = i1 THEN [ok |-> FALSE, val |-> 0]
        ELSE IF i2 # Len(s) + 1 THEN [ok |-> FALSE, val |-> 0]
        ELSE [ok |-> TRUE, val |-> IF neg THEN 0 - v ELSE v]

ParseInt(s) == ParseInt64(s)


(***************************************************************************)
(* History store, the pure part: the record line, std::getline, the fold   *)
(* and the ranking of LoadRecentUniqueFromPath, the scan of                *)
(* DeleteHistoryCommand.                                                    *)
(***************************************************************************)
\* The line AppendHistoryToPath composes.
HistoryLine(now, exit_code, command) ==
    ToDec(now) \o << Ch.tab >> \o ToDec(exit_code) \o << Ch.tab >>
        \o Base64Encode(command) \o << Ch.lf >>

\* while (std::getline(in, line)): the segments between line feeds; a last
\* segment without a line feed is a line unless it is empty.
RECURSIVE GetLines(_)
GetLines(content) ==
    LET nl == Find(content, Ch.lf, 1)
    IN  IF content = << >> THEN << >>
        ELSE IF nl = 0 THEN << content >>
        ELSE << SubSeq(content, 1, nl - 1) >> \o GetLines(Tail_(content, nl + 1))

\* ParseHistoryLine without the exit_code != 0 test.
ParseHistoryLine_AnyExit(line) ==
    LET t1 == Find(line, Ch.tab, 1)
        t2 == IF t1 = 0 THEN 0 ELSE Find(line, Ch.tab, t1 + 1)
        skipped == [skip |-> TRUE, ts |-> 0, command |-> << >>]
    IN  IF line = << >> \/ t1 = 0 \/ t2 = 0 THEN skipped
        ELSE LET ts   == ParseInt64(SubSeq(line, 1, t1 - 1))
                 code == ParseInt(SubSeq(line, t1 + 1, t2 - 1))
                 dec  == Base64Decode(Tail_(line, t2 + 1))
             IN  IF ~ts.ok \/ ~code.ok \/ ~dec.ok THEN skipped
                 ELSE [skip |-> FALSE, ts |-> ts.val, command |-> dec.out]

\* One pass of the loop body of LoadRecentUniqueFromPath up to the decode:
\* skip says the line was left by a continue.
ParseHistoryLine(line) ==
    LET t1 == Find(line, Ch.tab, 1)
        t2 == IF t1 = 0 THEN 0 ELSE Find(line, Ch.tab, t1 + 1)
        skipped == [skip |-> TRUE, ts |-> 0, command |-> << >>]
    IN  IF line = << >> THEN skipped
        ELSE IF t1 = 0 THEN skipped
        ELSE IF t2 = 0 THEN skipped
        ELSE LET ts   == ParseInt64(SubSeq(line, 1, t1 - 1))
                 code == ParseInt(SubSeq(line, t1 + 1, t2 - 1))
                 dec  == Base64Decode(Tail_(line, t2 + 1))
             IN  IF ~ts.ok THEN skipped
                 ELSE IF ~code.ok THEN skipped
                 ELSE IF code.val # 0 THEN skipped
                 ELSE IF ~dec.ok THEN skipped
                 ELSE [skip |-> FALSE, ts |-> ts.val, command |-> dec.out]

\* seen.find / seen.emplace / the update of an entry already seen.
SeenUpdate(seen, command, ts) ==
    IF command \notin DOMAIN seen
    THEN seen @@ (command :> [command |-> command, last_used |-> ts, count |-> 1])
    ELSE [seen EXCEPT ![command] =
            [command   |-> command,
             last_used |-> IF ts > @.last_used THEN ts ELSE @.last_used,
             count     |-> @.count + 1]]

\* LoadFold with break in place of continue: the first skipped line ends the
\* loop.
RECURSIVE LoadFold_Break(_, _, _)
LoadFold_Break(lines, i, seen) ==
    IF i > Len(lines) THEN seen
    ELSE LET p == ParseHistoryLine(lines[i])
         IN  IF p.skip THEN seen
             ELSE LoadFold_Break(lines, i + 1, SeenUpdate(seen, p.command, p.ts))

RECURSIVE LoadFold(_, _, _)
LoadFold(lines, i, seen) ==
    IF i > Len(lines) THEN seen
    ELSE LET p == ParseHistoryLine(lines[i])
         IN  IF p.skip THEN LoadFold(lines, i + 1, seen)
             ELSE LoadFold(lines, i + 1, SeenUpdate(seen, p.command, p.ts))

\* EntryLess with the count tie-break ascending.
EntryLess_CountAsc(a, b) ==
    IF a.last_used # b.last_used THEN a.last_used > b.last_used
    ELSE IF a.count # b.count THEN a.count < b.count
    ELSE StrLess(a.command, b.command)

\* The comparator handed to std::sort.
EntryLess(a, b) ==
    IF a.last_used # b.last_used THEN a.last_used > b.last_used
    ELSE IF a.count # b.count THEN a.count > b.count
    ELSE StrLess(a.command, b.command)

\* std::sort of the entries of seen: the comparator is a strict total order on
\* entries with distinct commands, so the sorted vector is unique.
RECURSIVE SortEntries(_)
SortEntries(S) ==
    IF S = {} THEN << >>
    ELSE LET m == CHOOSE e \in S : \A o \in S \ {e} : EntryLess(e, o)
         IN  << m >> \o SortEntries(S \ {m})

\* if (limit > 0 && result.size() > limit) result.resize(limit)
Truncate(result, limit) ==
    IF limit > 0 /\ Len(result) > limit THEN SubSeq(result, 1, limit) ELSE result

\* LoadRecentUniqueFromPath on the content read from the file.
LoadRecentUniqueFromContent(content, limit) ==
    LET seen == LoadFold(GetLines(content), 1, << >>)
    IN  Truncate(SortEntries({seen[c] : c \in DOMAIN seen}), limit)

\* The drop test of DeleteHistoryCommand for one line.
DropLine(line, command) ==
    LET t1 == Find(line, Ch.tab, 1)
        t2 == IF t1 = 0 THEN 0 ELSE Find(line, Ch.tab, t1 + 1)
    IN  /\ t1 # 0
        /\ t2 # 0
        /\ LET dec == Base64Decode(Tail_(line, t2 + 1))
           IN  dec.ok /\ dec.out = command

\* DeleteScan dropping the first matching line only.
RECURSIVE DeleteScan_FirstOnly(_, _, _, _, _)
DeleteScan_FirstOnly(lines, i, command, out, removed_count) ==
    IF i > Len(lines) THEN [out |-> out, removed_count |-> removed_count]
    ELSE IF removed_count = 0 /\ DropLine(lines[i], command)
         THEN DeleteScan_FirstOnly(lines, i + 1, command, out, removed_count + 1)
         ELSE DeleteScan_FirstOnly(lines, i + 1, command,
                                   out \o lines[i] \o << Ch.lf >>, removed_count)

\* The scan loop of DeleteHistoryCommand: the bytes written to the temporary
\* file and removed_count.
RECURSIVE DeleteScan(_, _, _, _, _)
DeleteScan(lines, i, command, out, removed_count) ==
    IF i > Len(lines) THEN [out |-> out, removed_count |-> removed_count]
    ELSE IF DropLine(lines[i], command)
         THEN DeleteScan(lines, i + 1, command, out, removed_count + 1)
         ELSE DeleteScan(lines, i + 1, command,
                         out \o lines[i] \o << Ch.lf >>, removed_count)


(***************************************************************************)
(* State.                                                                  *)
(*   hlog, hop : the history log and the last store operation run on it by *)
(*               a single process (specification SpecHist).                *)
(*   dirent    : the data directory: the inode each name refers to, 0 for  *)
(*               a name that does not exist.  The names are the log files  *)
(*               and one mkstemp name per process.                         *)
(*   inodes    : the content of every inode created so far, by inode       *)
(*               number; an inode whose name was replaced by rename stays  *)
(*               readable and writable through the descriptors open on it. *)
(*   pc, fd, lk, loc, ret : per process, the position in its operation,    *)
(*               the inode its descriptor is open on, the flock it holds   *)
(*               on it, its local variables, and what it returned.         *)
(*   log0      : the content of the log before any process ran.            *)
(*   exe       : the process running the exec operation: its arguments,    *)
(*               and once it ended its exit status or the program image    *)
(*               that replaced it.                                         *)
(*   tk        : a call of TokenizeArgs: its input, the loop variables,    *)
(*               the iterations made, and its result once it returned.     *)
(*   b64       : a Base64Encode call followed by Base64Decode of its       *)
(*               output: the bytes given, the text, the bytes returned.    *)
(*   clog      : the general-command log (commands.log), as hlog.          *)
(*   rec       : the process running the record operation: its arguments   *)
(*               and, once it ended, its exit status.                      *)
(*   afile, aop : the alias file and the last store operation run on it    *)
(*               by a single process (specification SpecAliasSeq), with    *)
(*               the mapping the calls made so far amount to.              *)
(*   tui       : the picker session: RunPickTui's arguments, locals, guard *)
(*               flags, position (pc) and its result.                      *)
(*   tty       : the controlling terminal: open or not, termios mode,      *)
(*               alternate screen, cursor, and the calls made on it.       *)
(*   obs       : what the picker's last loop iteration read from the       *)
(*               terminal, the alias-update calls it made, and the         *)
(*               position that the arrow keys read so far amount to.       *)
(*   pcmd      : the process running the pick operation: its arguments,    *)
(*               the items it built, what it wrote to standard output and  *)
(*               its exit status.                                          *)
(*   sess      : a shell session running sshtab commands one after the     *)
(*               other: the last command, its exit status and the view it  *)
(*               produced, the commands deleted and not recorded again,    *)
(*               and the number of commands run.                           *)
(***************************************************************************)
VARIABLES hlog, hop, dirent, inodes, pc, fd, lk, loc, ret, log0, exe, tk, b64, clog, rec, afile, aop,
          tui, tty, obs, pcmd, sess

histVars == << hlog, hop >>
fsVars == << dirent, inodes, pc, fd, lk, loc, ret, log0 >>
execVars == << exe >>
tokVars == << tk >>
codecVars == << b64 >>
cmdLogVars == << clog >>
recordVars == << rec >>
aliasVars == << afile, aop >>
pickVars == << tui, tty, obs >>
pickCmdVars == << pcmd >>
sessVars == << sess >>
vars == << hlog, hop, dirent, inodes, pc, fd, lk, loc, ret, log0, exe, tk, b64, clog, rec, afile, aop,
          tui, tty, obs, pcmd, sess >>

(***************************************************************************)
(* Inputs.                                                                 *)
(***************************************************************************)
CmdA == << 97 >>
CmdB == << 98 >>
CmdC == << 99 >>
Cmds == {CmdA, CmdB}
Epochs == {1, 2}
ExitCodes == {0, 1}
Limits == {0, 1, 2}

\* What a log holds when the process starts: records of earlier appends (exit
\* code 0 or not), malformed lines (a non-numeric epoch, a non-numeric exit
\* code, a base64 field of length 3, an empty line) and a
\* record that lost its line feed.
LinePool ==
    { HistoryLine(2, 0, CmdA),
      HistoryLine(1, 1, CmdA),
      << 120, Ch.tab, Ch.zero, Ch.tab >> \o Base64Encode(CmdA) \o << Ch.lf >>,
      << 49, Ch.tab, 122, Ch.tab >> \o Base64Encode(CmdB) \o << Ch.lf >>,
      << 49, Ch.tab, Ch.zero, Ch.tab, 89, 81, Ch.eq, Ch.lf >>,
      << Ch.lf >>,
      << 50, Ch.tab, Ch.zero, Ch.tab >> \o Base64Encode(CmdB) }

RECURSIVE Concat(_)
Concat(ss) == IF ss = << >> THEN << >> ELSE Head(ss) \o Concat(Tail(ss))

LogContents ==
    { Concat(ss) : ss \in UNION { [1 .. n -> LinePool] : n \in 0 .. MaxLines } }

\* The processes: two appenders, a deleter and two loaders on the history log.
Appenders == {"a1", "a2"}
Deleters == {"d1"}
Loaders == {"l1", "l2"}
Procs == Appenders \cup Deleters \cup Loaders
HistoryPath == "history.log"
Names == {HistoryPath} \cup Procs

\* No process has started; the directory holds at most the log.
ProcsIdle ==
    /\ pc = [p \in Procs |-> "idle"]
    /\ fd = [p \in Procs |-> 0]
    /\ lk = [p \in Procs |-> "none"]
    /\ loc = [p \in Procs |-> << >>]
    /\ ret = [p \in Procs |-> << >>]

NoFile == [exists |-> FALSE, data |-> << >>]
File(data) == [exists |-> TRUE, data |-> data]

NoOp == [op |-> "none"]

\* The pick operation when no pick process is modelled.
NoPickCmd == [pc |-> "none"]

\* The shell session when no session of commands is modelled.
NoSess == [op |-> "none"]

\* The picker when no picker session is modelled.
NoPick == [pc |-> "none"]

\* The terminal and the observer when no picker session is modelled.
NoTty == [open |-> FALSE]
NoObs == [keys |-> << >>]

\* No alias store operation was run yet.
NoAliasOp == [op |-> "none"]

\* The record operation is not running.
NoRecord == [pc |-> "none"]

\* No Base64 call is running.
NoCodec == [pc |-> "none"]

\* The exec operation is not running.
NoExec == [pc |-> "none"]

\* TokenizeArgs is not running.
NoTok == [pc |-> "none"]

(***************************************************************************)
(* The store operations run by one process, start to return.               *)
(***************************************************************************)
\* AppendHistoryToPath: open(O_CREAT | O_APPEND), lock, write the line.
AppendHistoryToPath(file, command, exit_code, now) ==
    File(file.data \o HistoryLine(now, exit_code, command))

\* LoadRecentUniqueFromPath: a missing file is an empty result.
LoadRecentUniqueFromPath(file, limit) ==
    IF ~file.exists THEN << >>
    ELSE LoadRecentUniqueFromContent(file.data, limit)

\* DeleteHistoryCommand without the removed_count == 0 return: the temporary
\* file is renamed over the log whatever the scan found.
DeleteHistoryCommand_NoCheck(file, command) ==
    IF ~file.exists
    THEN [ok |-> FALSE, err |-> "open failed", removed |-> 0,
          file |-> file, renamed |-> FALSE]
    ELSE LET scan == DeleteScan(GetLines(file.data), 1, command, << >>, 0)
         IN  [ok |-> scan.removed_count > 0,
              err |-> IF scan.removed_count > 0 THEN "" ELSE "entry not found",
              removed |-> scan.removed_count,
              file |-> File(scan.out), renamed |-> TRUE]

\* DeleteHistoryCommand without I/O failures: the outcome, the file left at
\* the path, and whether rename was called.
DeleteHistoryCommand(file, command) ==
    IF ~file.exists
    THEN [ok |-> FALSE, err |-> "open failed", removed |-> 0,
          file |-> file, renamed |-> FALSE]
    ELSE LET scan == DeleteScan(GetLines(file.data), 1, command, << >>, 0)
         IN  IF scan.removed_count = 0
             THEN [ok |-> FALSE, err |-> "entry not found", removed |-> 0,
                   file |-> file, renamed |-> FALSE]
             ELSE [ok |-> TRUE, err |-> "", removed |-> scan.removed_count,
                   file |-> File(scan.out), renamed |-> TRUE]

HInit ==
    /\ hlog \in {NoFile} \cup { File(d) : d \in LogContents }
    /\ hop = NoOp
    /\ pcmd = NoPickCmd
    /\ sess = NoSess
    /\ tui = NoPick
    /\ tty = NoTty
    /\ obs = NoObs
    /\ afile = NoFile
    /\ aop = NoAliasOp
    /\ rec = NoRecord
    /\ clog = NoFile
    /\ b64 = NoCodec
    /\ exe = NoExec
    /\ tk = NoTok
    /\ ProcsIdle
    /\ dirent = [n \in Names |-> 0]
    /\ inodes = << >>
    /\ log0 = << >>

\* A run is at most one append, to a log of fewer than MaxLines lines, followed
\* by at most one load or delete.
HAppend ==
    \E c \in Cmds, e \in ExitCodes, now \in Epochs :
        /\ hop.op = "none"
        /\ Len(GetLines(hlog.data)) < MaxLines
        /\ hlog' = AppendHistoryToPath(hlog, c, e, now)
        /\ hop' = [op |-> "append", command |-> c, exit_code |-> e, now |-> now,
                   pre |-> hlog, ok |-> TRUE]
        /\ UNCHANGED << fsVars, execVars, tokVars, codecVars, cmdLogVars, recordVars, aliasVars, pickVars, pickCmdVars, sessVars >>

HLoad ==
    \E limit \in Limits :
        /\ hop.op \in {"none", "append"}
        /\ hop' = [op |-> "load", limit |-> limit, pre |-> hlog,
                   result |-> LoadRecentUniqueFromPath(hlog, limit)]
        /\ UNCHANGED << hlog, fsVars, execVars, tokVars, codecVars, cmdLogVars, recordVars, aliasVars, pickVars, pickCmdVars, sessVars >>

HDelete ==
    \E c \in Cmds \cup {CmdC} :
        LET r == DeleteHistoryCommand(hlog, c)
        IN  /\ hop.op \in {"none", "append"}
            /\ hlog' = r.file
            /\ hop' = [op |-> "delete", command |-> c, pre |-> hlog,
                       ok |-> r.ok, err |-> r.err, removed |-> r.removed,
                       renamed |-> r.renamed]
            /\ UNCHANGED << fsVars, execVars, tokVars, codecVars, cmdLogVars, recordVars, aliasVars, pickVars, pickCmdVars, sessVars >>

HNext == HAppend \/ HLoad \/ HDelete

SpecHist == HInit /\ [][HNext]_vars


(***************************************************************************)
(* What the claims say of a log line, stated on its tab-separated fields.  *)
(***************************************************************************)
HasThreeFields(line) ==
    \E i, j \in 1 .. Len(line) : i < j /\ line[i] = Ch.tab /\ line[j] = Ch.tab

Tab1(line) == CHOOSE i \in 1 .. Len(line) :
                 line[i] = Ch.tab /\ \A k \in 1 .. i - 1 : line[k] # Ch.tab
Tab2(line) == CHOOSE j \in Tab1(line) + 1 .. Len(line) :
                 line[j] = Ch.tab /\ \A k \in Tab1(line) + 1 .. j - 1 : line[k] # Ch.tab

EpochField(line) == SubSeq(line, 1, Tab1(line) - 1)
ExitField(line) == SubSeq(line, Tab1(line) + 1, Tab2(line) - 1)
CommandField(line) == SubSeq(line, Tab2(line) + 1, Len(line))

\* The command field of the line decodes to c.
DecodesTo(line, c) ==
    /\ HasThreeFields(line)
    /\ Base64Decode(CommandField(line)).ok
    /\ Base64Decode(CommandField(line)).out = c

WellFormed(line) ==
    /\ HasThreeFields(line)
    /\ ParseInt64(EpochField(line)).ok
    /\ ParseInt(ExitField(line)).ok
    /\ Base64Decode(CommandField(line)).ok

LineEpoch(line) == ParseInt64(EpochField(line)).val
LineExit(line) == ParseInt(ExitField(line)).val
LineCommand(line) == Base64Decode(CommandField(line)).out

\* The lines of a log, the indices of the exit-code-0 records of c among them.
LogLines(file) == IF file.exists THEN GetLines(file.data) ELSE << >>
GoodLines(lines, c) ==
    { i \in 1 .. Len(lines) :
        WellFormed(lines[i]) /\ LineExit(lines[i]) = 0 /\ LineCommand(lines[i]) = c }
GoodCommands(lines) ==
    { LineCommand(lines[i]) :
        i \in { k \in 1 .. Len(lines) : WellFormed(lines[k]) /\ LineExit(lines[k]) = 0 } }
MaxOf(S) == CHOOSE m \in S : \A x \in S : x <= m

RECURSIVE JoinLines(_)
JoinLines(lines) ==
    IF lines = << >> THEN << >>
    ELSE Head(lines) \o << Ch.lf >> \o JoinLines(Tail(lines))

Range(f) == { f[i] : i \in DOMAIN f }

\* C5: a load returns one entry per distinct command that has a well-formed
\* line with exit code 0 (all of them when limit is 0); the entry's count is
\* the number of those lines and its last_used their greatest epoch; lines
\* with another exit code add nothing.
C5_LoadFoldsExitZeroLines ==
    hop.op = "load" =>
        LET lines == LogLines(hop.pre)
            res   == hop.result
        IN  /\ \A i, j \in 1 .. Len(res) : i # j => res[i].command # res[j].command
            /\ \A i \in 1 .. Len(res) :
                 LET good == GoodLines(lines, res[i].command)
                 IN  /\ good # {}
                     /\ res[i].count = Cardinality(good)
                     /\ res[i].last_used = MaxOf({ LineEpoch(lines[k]) : k \in good })
            /\ hop.limit = 0 =>
                 { res[i].command : i \in 1 .. Len(res) } = GoodCommands(lines)

\* A load of a log that holds two exit-code-0 records of a command, at
\* different epochs, and a record of the same command with another exit code.
C5_Witness ==
    /\ hop.op = "load"
    /\ \E i \in 1 .. Len(hop.result) :
         LET lines == LogLines(hop.pre)
             c == hop.result[i].command
         IN  /\ hop.result[i].count = 2
             /\ \E k \in 1 .. Len(lines) :
                  WellFormed(lines[k]) /\ LineExit(lines[k]) # 0 /\ LineCommand(lines[k]) = c
             /\ \E k \in GoodLines(lines, c) : LineEpoch(lines[k]) < hop.result[i].last_used

\* The order the claim states: last_used descending, then count descending,
\* then command ascending.
RankedBefore(a, b) ==
    \/ a.last_used > b.last_used
    \/ a.last_used = b.last_used /\ a.count > b.count
    \/ a.last_used = b.last_used /\ a.count = b.count /\ StrLess(a.command, b.command)

\* C6: the result of a load is strictly ordered by last_used descending, count
\* descending, command ascending (so no two entries tie), and it is the first
\* limit entries of the untruncated list when limit > 0, the whole list when
\* limit is 0.
C6_LoadOrderedAndTruncated ==
    hop.op = "load" =>
        LET res  == hop.result
            n    == Cardinality(GoodCommands(LogLines(hop.pre)))
            full == LoadRecentUniqueFromPath(hop.pre, 0)
        IN  /\ \A i, j \in 1 .. Len(res) : i < j => RankedBefore(res[i], res[j])
            /\ Len(res) = IF hop.limit > 0 THEN Min(hop.limit, n) ELSE n
            /\ Len(full) = n
            /\ \A i \in 1 .. Len(full) :
                 \A j \in 1 .. Len(full) : i < j => RankedBefore(full[i], full[j])
            /\ res = SubSeq(full, 1, Len(res))

\* A load with limit 1 of a log with two commands of equal last_used and
\* different counts: the tie-break decides which entry is kept.
C6_Witness ==
    /\ hop.op = "load"
    /\ hop.limit = 1
    /\ Len(hop.result) = 1
    /\ LET full == LoadRecentUniqueFromPath(hop.pre, 0)
       IN  /\ Len(full) = 2
           /\ full[1].last_used = full[2].last_used
           /\ full[1].count # full[2].count

\* C7: after a successful delete of c the log holds exactly the original
\* lines whose command field does not decode to c, in their order, each ended
\* by a line feed; removed is the number of lines dropped (all of them,
\* whatever their exit code); a load no longer returns c and returns every
\* other command with the count and last_used it had.
C7_DeleteRemovesAllLinesOfCommand ==
    (hop.op = "delete" /\ hop.ok) =>
        LET before == LogLines(hop.pre)
            after  == LogLines(hlog)
            Keep(l) == ~DecodesTo(l, hop.command)
            was    == LoadRecentUniqueFromPath(hop.pre, 0)
            is     == LoadRecentUniqueFromPath(hlog, 0)
        IN  /\ hlog.exists
            /\ after = SelectSeq(before, Keep)
            /\ hlog.data = JoinLines(after)
            /\ hop.removed = Len(before) - Len(after)
            /\ hop.removed =
                 Cardinality({ i \in 1 .. Len(before) : DecodesTo(before[i], hop.command) })
            /\ hop.removed > 0
            /\ \A i \in 1 .. Len(is) : is[i].command # hop.command
            /\ Range(is) = { e \in Range(was) : e.command # hop.command }

\* A successful delete that dropped two lines, one of which no load counted,
\* and kept a record of another command.
C7_Witness ==
    /\ hop.op = "delete"
    /\ hop.ok
    /\ hop.removed = 2
    /\ \E i \in 1 .. Len(LogLines(hop.pre)) :
         /\ DecodesTo(LogLines(hop.pre)[i], hop.command)
         /\ ParseHistoryLine(LogLines(hop.pre)[i]).skip
    /\ LoadRecentUniqueFromPath(hlog, 0) # << >>

\* C8: a delete of c on a log no line of which decodes to c fails with
\* "entry not found", calls no rename and leaves the file as it was, byte for
\* byte.
C8_DeleteAbsentFailsUntouched ==
    (/\ hop.op = "delete"
     /\ hop.pre.exists
     /\ \A i \in 1 .. Len(LogLines(hop.pre)) : ~DecodesTo(LogLines(hop.pre)[i], hop.command))
    => /\ ~hop.ok
       /\ hop.err = "entry not found"
       /\ hop.removed = 0
       /\ ~hop.renamed
       /\ hlog = hop.pre

\* A failed delete on a log whose last line has no line feed: rewriting the
\* survivors would have changed its bytes.
C8_Witness ==
    /\ hop.op = "delete"
    /\ hop.pre.exists
    /\ hop.err = "entry not found"
    /\ hop.pre.data # << >>
    /\ hop.pre.data[Len(hop.pre.data)] # Ch.lf

\* C9: a load returns what it returns for the same log with every malformed
\* line (fewer than three fields, a non-numeric epoch or exit code,
\* undecodable base64) taken out.
C9_MalformedLinesSkipped ==
    hop.op = "load" =>
        hop.result =
            LoadRecentUniqueFromPath(
                [exists |-> hop.pre.exists,
                 data   |-> JoinLines(SelectSeq(LogLines(hop.pre), WellFormed))],
                hop.limit)

\* A load of a log with a non-empty malformed line between two exit-code-0
\* records, both of which are in the result.
C9_Witness ==
    /\ hop.op = "load"
    /\ LET lines == LogLines(hop.pre)
       IN  /\ Len(lines) = 3
           /\ lines[2] # << >>
           /\ ~WellFormed(lines[2])
           /\ \A k \in {1, 3} :
                /\ WellFormed(lines[k])
                /\ LineExit(lines[k]) = 0
                /\ \E i \in 1 .. Len(hop.result) :
                     hop.result[i].command = LineCommand(lines[k])


(***************************************************************************)
(* The history store run by concurrent processes (specification Spec).     *)
(* Each system call that reads or changes the directory, an inode or a     *)
(* lock is one step.                                                       *)
(***************************************************************************)
\* The logs the processes may find: none, one record, two records.
InitLogs ==
    { HistoryLine(1, 0, CmdB),
      HistoryLine(1, 0, CmdA) \o HistoryLine(2, 0, CmdB) }

\* The arguments of the calls.
AppendCommand(p) == IF p = "a1" THEN CmdA ELSE CmdB
DeleteCommand == CmdB

\* The lock each operation asks for.
AppendLockMode_None == "none"
AppendLockMode == "ex"
DeleteLockMode == "ex"
LoadLockMode_None == "none"
LoadLockMode == "sh"

\* flock(2): a shared lock waits for an exclusive holder of the inode, an
\* exclusive lock for any holder.
LockFree(p, ino, mode) ==
    \A q \in DOMAIN fd \ {p} :
        fd[q] = ino =>
            CASE mode = "sh" -> lk[q] # "ex"
              [] mode = "ex" -> lk[q] = "none"
              [] OTHER -> TRUE

\* write(2) returns the whole remainder or, when that is longer, ShortWrite
\* bytes.
WriteSizes(remaining) ==
    {remaining} \cup (IF remaining > ShortWrite THEN {ShortWrite} ELSE {})

Init ==
    /\ hlog = NoFile
    /\ hop = NoOp
    /\ pcmd = NoPickCmd
    /\ sess = NoSess
    /\ tui = NoPick
    /\ tty = NoTty
    /\ obs = NoObs
    /\ afile = NoFile
    /\ aop = NoAliasOp
    /\ rec = NoRecord
    /\ clog = NoFile
    /\ b64 = NoCodec
    /\ exe = NoExec
    /\ tk = NoTok
    /\ ProcsIdle
    /\ \/ /\ dirent = [n \in Names |-> 0]
          /\ inodes = << >>
          /\ log0 = << >>
       \/ \E content \in InitLogs :
            /\ dirent = [n \in Names |-> IF n = HistoryPath THEN 1 ELSE 0]
            /\ inodes = << content >>
            /\ log0 = content

\* ---- AppendHistoryToPath ----
\* open(path, O_CREAT | O_WRONLY | O_APPEND)
AppendOpen(p) ==
    /\ pc[p] = "idle"
    /\ IF dirent[HistoryPath] = 0
       THEN /\ inodes' = Append(inodes, << >>)
            /\ dirent' = [dirent EXCEPT ![HistoryPath] = Len(inodes) + 1]
       ELSE UNCHANGED << inodes, dirent >>
    /\ fd' = [fd EXCEPT ![p] = dirent'[HistoryPath]]
    /\ pc' = [pc EXCEPT ![p] = "lock"]
    /\ UNCHANGED << lk, loc, ret, log0, histVars, execVars, tokVars, codecVars, cmdLogVars, recordVars, aliasVars, pickVars, pickCmdVars, sessVars >>

\* lock.LockExclusive, then the line is composed with the time read now.
AppendLock(p) ==
    /\ pc[p] = "lock"
    /\ LockFree(p, fd[p], AppendLockMode)
    /\ lk' = [lk EXCEPT ![p] = AppendLockMode]
    /\ \E now \in Epochs :
         loc' = [loc EXCEPT ![p] =
                    [line |-> HistoryLine(now, 0, AppendCommand(p)), off |-> 0]]
    /\ pc' = [pc EXCEPT ![p] = "write"]
    /\ UNCHANGED << dirent, inodes, fd, ret, log0, histVars, execVars, tokVars, codecVars, cmdLogVars, recordVars, aliasVars, pickVars, pickCmdVars, sessVars >>

\* One pass of the loop of WriteAllToFd: O_APPEND puts the bytes at the end
\* of the inode.
AppendWrite(p) ==
    /\ pc[p] = "write"
    /\ \E n \in WriteSizes(Len(loc[p].line) - loc[p].off) :
         /\ inodes' = [inodes EXCEPT ![fd[p]] =
                          @ \o SubSeq(loc[p].line, loc[p].off + 1, loc[p].off + n)]
         /\ loc' = [loc EXCEPT ![p].off = @ + n]
         /\ pc' = [pc EXCEPT ![p] =
                      IF loc[p].off + n = Len(loc[p].line) THEN "return" ELSE "write"]
    /\ UNCHANGED << dirent, fd, lk, ret, log0, histVars, execVars, tokVars, codecVars, cmdLogVars, recordVars, aliasVars, pickVars, pickCmdVars, sessVars >>

\* return true: ~FlockGuard unlocks, ~ScopedFd closes.
AppendReturn(p) ==
    /\ pc[p] = "return"
    /\ lk' = [lk EXCEPT ![p] = "none"]
    /\ fd' = [fd EXCEPT ![p] = 0]
    /\ ret' = [ret EXCEPT ![p] = [ok |-> TRUE]]
    /\ pc' = [pc EXCEPT ![p] = "done"]
    /\ UNCHANGED << dirent, inodes, loc, log0, histVars, execVars, tokVars, codecVars, cmdLogVars, recordVars, aliasVars, pickVars, pickCmdVars, sessVars >>

\* ---- DeleteHistoryCommand ----
\* open(path, O_RDWR): fails when the log does not exist.
DeleteOpen(p) ==
    /\ pc[p] = "idle"
    /\ IF dirent[HistoryPath] = 0
       THEN /\ ret' = [ret EXCEPT ![p] =
                         [ok |-> FALSE, err |-> "open failed", removed |-> 0]]
            /\ pc' = [pc EXCEPT ![p] = "done"]
            /\ UNCHANGED fd
       ELSE /\ fd' = [fd EXCEPT ![p] = dirent[HistoryPath]]
            /\ pc' = [pc EXCEPT ![p] = "lock"]
            /\ UNCHANGED ret
    /\ UNCHANGED << dirent, inodes, lk, loc, log0, histVars, execVars, tokVars, codecVars, cmdLogVars, recordVars, aliasVars, pickVars, pickCmdVars, sessVars >>

DeleteLock(p) ==
    /\ pc[p] = "lock"
    /\ LockFree(p, fd[p], DeleteLockMode)
    /\ lk' = [lk EXCEPT ![p] = DeleteLockMode]
    /\ pc' = [pc EXCEPT ![p] = "read"]
    /\ UNCHANGED << dirent, inodes, fd, loc, ret, log0, histVars, execVars, tokVars, codecVars, cmdLogVars, recordVars, aliasVars, pickVars, pickCmdVars, sessVars >>

\* ReadAllFromFd
DeleteRead(p) ==
    /\ pc[p] = "read"
    /\ loc' = [loc EXCEPT ![p] = [content |-> inodes[fd[p]], tmp |-> 0,
                                  removed_count |-> 0]]
    /\ pc' = [pc EXCEPT ![p] = "mkstemp"]
    /\ UNCHANGED << dirent, inodes, fd, lk, ret, log0, histVars, execVars, tokVars, codecVars, cmdLogVars, recordVars, aliasVars, pickVars, pickCmdVars, sessVars >>

\* mkstemp: a new name, the process's own, on a new empty inode.
DeleteMkstemp(p) ==
    /\ pc[p] = "mkstemp"
    /\ inodes' = Append(inodes, << >>)
    /\ dirent' = [dirent EXCEPT ![p] = Len(inodes) + 1]
    /\ loc' = [loc EXCEPT ![p].tmp = Len(inodes) + 1]
    /\ pc' = [pc EXCEPT ![p] = "scan"]
    /\ UNCHANGED << fd, lk, ret, log0, histVars, execVars, tokVars, codecVars, cmdLogVars, recordVars, aliasVars, pickVars, pickCmdVars, sessVars >>

\* The scan loop: the survivors are written to the temporary file.
DeleteWriteSurvivors(p) ==
    /\ pc[p] = "scan"
    /\ LET scan == DeleteScan(GetLines(loc[p].content), 1, DeleteCommand, << >>, 0)
       IN  /\ inodes' = [inodes EXCEPT ![loc[p].tmp] = scan.out]
           /\ loc' = [loc EXCEPT ![p].removed_count = scan.removed_count]
    /\ pc' = [pc EXCEPT ![p] = "check"]
    /\ UNCHANGED << dirent, fd, lk, ret, log0, histVars, execVars, tokVars, codecVars, cmdLogVars, recordVars, aliasVars, pickVars, pickCmdVars, sessVars >>

\* removed_count == 0: unlink the temporary file and fail; otherwise fsync it.
DeleteCheck(p) ==
    /\ pc[p] = "check"
    /\ IF loc[p].removed_count = 0
       THEN /\ dirent' = [dirent EXCEPT ![p] = 0]
            /\ ret' = [ret EXCEPT ![p] =
                         [ok |-> FALSE, err |-> "entry not found", removed |-> 0]]
            /\ lk' = [lk EXCEPT ![p] = "none"]
            /\ fd' = [fd EXCEPT ![p] = 0]
            /\ pc' = [pc EXCEPT ![p] = "done"]
       ELSE /\ pc' = [pc EXCEPT ![p] = "rename"]
            /\ UNCHANGED << dirent, ret, lk, fd >>
    /\ UNCHANGED << inodes, loc, log0, histVars, execVars, tokVars, codecVars, cmdLogVars, recordVars, aliasVars, pickVars, pickCmdVars, sessVars >>

\* rename(tmp_path, path): the log name now refers to the temporary inode.
DeleteRename(p) ==
    /\ pc[p] = "rename"
    /\ dirent' = [dirent EXCEPT ![HistoryPath] = loc[p].tmp, ![p] = 0]
    /\ pc' = [pc EXCEPT ![p] = "return"]
    /\ UNCHANGED << inodes, fd, lk, loc, ret, log0, histVars, execVars, tokVars, codecVars, cmdLogVars, recordVars, aliasVars, pickVars, pickCmdVars, sessVars >>

\* FsyncDir, *removed = removed_count, return true: unlock and close.
DeleteReturn(p) ==
    /\ pc[p] = "return"
    /\ ret' = [ret EXCEPT ![p] =
                 [ok |-> TRUE, err |-> "", removed |-> loc[p].removed_count]]
    /\ lk' = [lk EXCEPT ![p] = "none"]
    /\ fd' = [fd EXCEPT ![p] = 0]
    /\ pc' = [pc EXCEPT ![p] = "done"]
    /\ UNCHANGED << dirent, inodes, loc, log0, histVars, execVars, tokVars, codecVars, cmdLogVars, recordVars, aliasVars, pickVars, pickCmdVars, sessVars >>

\* ---- LoadRecentUniqueFromPath ----
\* open(path, O_RDONLY): ENOENT is an empty result.
LoadOpen(p) ==
    /\ pc[p] = "idle"
    /\ IF dirent[HistoryPath] = 0
       THEN /\ ret' = [ret EXCEPT ![p] = [result |-> << >>]]
            /\ loc' = [loc EXCEPT ![p] = [content |-> << >>]]
            /\ pc' = [pc EXCEPT ![p] = "done"]
            /\ UNCHANGED fd
       ELSE /\ fd' = [fd EXCEPT ![p] = dirent[HistoryPath]]
            /\ pc' = [pc EXCEPT ![p] = "lock"]
            /\ UNCHANGED << ret, loc >>
    /\ UNCHANGED << dirent, inodes, lk, log0, histVars, execVars, tokVars, codecVars, cmdLogVars, recordVars, aliasVars, pickVars, pickCmdVars, sessVars >>

LoadLock(p) ==
    /\ pc[p] = "lock"
    /\ LockFree(p, fd[p], LoadLockMode)
    /\ lk' = [lk EXCEPT ![p] = LoadLockMode]
    /\ pc' = [pc EXCEPT ![p] = "read"]
    /\ UNCHANGED << dirent, inodes, fd, loc, ret, log0, histVars, execVars, tokVars, codecVars, cmdLogVars, recordVars, aliasVars, pickVars, pickCmdVars, sessVars >>

\* ReadAllFromFd
LoadRead(p) ==
    /\ pc[p] = "read"
    /\ loc' = [loc EXCEPT ![p] = [content |-> inodes[fd[p]]]]
    /\ pc' = [pc EXCEPT ![p] = "return"]
    /\ UNCHANGED << dirent, inodes, fd, lk, ret, log0, histVars, execVars, tokVars, codecVars, cmdLogVars, recordVars, aliasVars, pickVars, pickCmdVars, sessVars >>

\* The fold, the sort and the return (limit 0: the whole list).
LoadReturn(p) ==
    /\ pc[p] = "return"
    /\ ret' = [ret EXCEPT ![p] =
                 [result |-> LoadRecentUniqueFromContent(loc[p].content, 0)]]
    /\ lk' = [lk EXCEPT ![p] = "none"]
    /\ fd' = [fd EXCEPT ![p] = 0]
    /\ pc' = [pc EXCEPT ![p] = "done"]
    /\ UNCHANGED << dirent, inodes, loc, log0, histVars, execVars, tokVars, codecVars, cmdLogVars, recordVars, aliasVars, pickVars, pickCmdVars, sessVars >>

Next ==
    \/ \E p \in Appenders : AppendOpen(p)
    \/ \E p \in Appenders : AppendLock(p)
    \/ \E p \in Appenders : AppendWrite(p)
    \/ \E p \in Appenders : AppendReturn(p)
    \/ \E p \in Deleters : DeleteOpen(p)
    \/ \E p \in Deleters : DeleteLock(p)
    \/ \E p \in Deleters : DeleteRead(p)
    \/ \E p \in Deleters : DeleteMkstemp(p)
    \/ \E p \in Deleters : DeleteWriteSurvivors(p)
    \/ \E p \in Deleters : DeleteCheck(p)
    \/ \E p \in Deleters : DeleteRename(p)
    \/ \E p \in Deleters : DeleteReturn(p)
    \/ \E p \in Loaders : LoadOpen(p)
    \/ \E p \in Loaders : LoadLock(p)
    \/ \E p \in Loaders : LoadRead(p)
    \/ \E p \in Loaders : LoadReturn(p)

Spec == Init /\ [][Next]_vars


(***************************************************************************)
(* Claims on the concurrent history store.                                 *)
(***************************************************************************)
\* The log at the log path.
LogNow == IF dirent[HistoryPath] = 0 THEN << >> ELSE inodes[dirent[HistoryPath]]

\* What a delete of DeleteCommand makes of a content when run alone.
DeleteOf(content) ==
    LET scan == DeleteScan(GetLines(content), 1, DeleteCommand, << >>, 0)
    IN  IF scan.removed_count = 0 THEN content ELSE scan.out

\* C1: when Append(c1, 0) by a1 and DeleteByCommand(c2) by d1, c1 # c2, have
\* both returned success (nothing else wrote), the log at the path is the
\* result of one of the two sequential orders: the line of c1 is in it and a
\* load returns c1.
C1_AppendDeleteSerialized ==
    (/\ pc["a1"] = "done" /\ ret["a1"].ok
     /\ pc["d1"] = "done" /\ ret["d1"].ok
     /\ pc["a2"] = "idle")
    => /\ LogNow \in { DeleteOf(log0 \o loc["a1"].line),
                       DeleteOf(log0) \o loc["a1"].line }
       /\ \E i \in 1 .. Len(GetLines(LogNow)) :
            GetLines(LogNow)[i] \o << Ch.lf >> = loc["a1"].line
       /\ \E e \in Range(LoadRecentUniqueFromContent(LogNow, 0)) :
            e.command = AppendCommand("a1")

\* The appenders whose line is wholly in the file, the ones with a part of it.
Wrote(p) == pc[p] \in {"write", "return", "done"} /\ loc[p].off > 0
WroteAll == { p \in Appenders : Wrote(p) /\ loc[p].off = Len(loc[p].line) }
WrotePart == { p \in Appenders : Wrote(p) /\ loc[p].off < Len(loc[p].line) }
Orders(S) ==
    { f \in [1 .. Cardinality(S) -> S] : \A i, j \in DOMAIN f : i # j => f[i] # f[j] }
LinesIn(f) == Concat([i \in DOMAIN f |-> loc[f[i]].line])

\* C3: as long as only appenders run, the log is its initial content followed
\* by the whole lines of the calls that finished writing, in some order, and
\* then at most the written part of one more line, the lock holder's; so
\* when all the calls have returned it is the initial content followed by one
\* whole line per call.
C3_AppendsNeverInterleave ==
    pc["d1"] = "idle" =>
        /\ Cardinality(WrotePart) <= 1
        /\ \A p \in WrotePart : lk[p] = "ex"
        /\ \E f \in Orders(WroteAll) :
             \/ WrotePart = {} /\ LogNow = log0 \o LinesIn(f)
             \/ \E p \in WrotePart :
                  LogNow = log0 \o LinesIn(f) \o SubSeq(loc[p].line, 1, loc[p].off)
        /\ (\A p \in Appenders : pc[p] = "done") =>
             /\ WroteAll = Appenders
             /\ \A p \in Appenders : ret[p].ok

\* Both appends returned, a2's line before a1's, after the initial content.
C3_Witness ==
    /\ pc["d1"] = "idle"
    /\ \A p \in Appenders : pc[p] = "done" /\ ret[p].ok
    /\ log0 # << >>
    /\ LogNow = log0 \o loc["a2"].line \o loc["a1"].line

\* The mutations that have begun: the appends whose line is composed, the
\* delete once started.
Mutations ==
    { [t |-> "append", line |-> loc[p].line] :
        p \in { q \in Appenders : pc[q] \in {"write", "return", "done"} } }
    \cup { [t |-> "delete", line |-> << >>] : p \in { q \in Deleters : pc[q] # "idle" } }

ApplyMutation(content, m) ==
    IF m.t = "append" THEN content \o m.line ELSE DeleteOf(content)

\* The contents reached from c by some of the mutations M, each at most once,
\* in some order.
RECURSIVE CompleteStates(_, _)
CompleteStates(M, c) ==
    {c} \cup UNION { CompleteStates(M \ {m}, ApplyMutation(c, m)) : m \in M }

\* C4: what a load read is a complete state of the log: the initial content
\* with some of the concurrent appends and the delete applied whole, never a
\* part of a line or of a rewrite; its result is the ranked view of that
\* content; and a load waiting for its lock is not kept waiting by other
\* loads.
C4_LoadSeesCompleteState ==
    \A l \in Loaders :
        /\ pc[l] \in {"return", "done"} =>
             loc[l].content \in CompleteStates(Mutations, log0)
        /\ pc[l] = "done" =>
             ret[l].result = LoadRecentUniqueFromContent(loc[l].content, 0)
        /\ (/\ pc[l] = "lock"
            /\ \A q \in Procs \ Loaders : fd[q] = fd[l] => lk[q] = "none")
           => LockFree(l, fd[l], LoadLockMode)

\* Both loads have read the same inode and still hold their locks together,
\* while an append and the delete wait for it; what they read holds the line
\* of the append that finished.
C4_Witness ==
    /\ pc["l1"] = "return" /\ pc["l2"] = "return"
    /\ lk["l1"] = "sh" /\ lk["l2"] = "sh"
    /\ fd["l1"] = fd["l2"]
    /\ pc["a1"] = "lock" /\ fd["a1"] = fd["l1"]
    /\ pc["d1"] = "lock" /\ fd["d1"] = fd["l1"]
    /\ pc["a2"] = "done"
    /\ loc["l1"].content = log0 \o loc["a2"].line
    /\ loc["l2"].content = loc["l1"].content


(***************************************************************************)
(* The alias store: one line per key, base64(key) TAB base64(alias) LF.    *)
(* A mapping is a function from keys to non-empty aliases.                 *)
(***************************************************************************)
AliasLine(key, val) ==
    Base64Encode(key) \o << Ch.tab >> \o Base64Encode(val) \o << Ch.lf >>

EmptyAliases == [k \in {} |-> << >>]

EraseAlias(aliases, key) == [k \in DOMAIN aliases \ {key} |-> aliases[k]]

PutAlias(aliases, key, val) ==
    [k \in DOMAIN aliases \cup {key} |-> IF k = key THEN val ELSE aliases[k]]

\* One pass of the loop with the first line of a key kept and no erasing.
ParseAliasLine_FirstWins(line, aliases) ==
    LET tab == Find(line, Ch.tab, 1)
        key == Base64Decode(SubSeq(line, 1, tab - 1))
        val == Base64Decode(Tail_(line, tab + 1))
    IN  IF line = << >> \/ tab = 0 THEN aliases
        ELSE IF ~key.ok \/ ~val.ok THEN aliases
        ELSE IF key.out = << >> \/ val.out = << >> THEN aliases
        ELSE IF key.out \in DOMAIN aliases THEN aliases
        ELSE PutAlias(aliases, key.out, val.out)

\* One pass of the loop of ParseAliasContent: a line without a tab, with an
\* undecodable field or with an empty key is skipped; an empty value erases.
ParseAliasLine(line, aliases) ==
    LET tab == Find(line, Ch.tab, 1)
        key == Base64Decode(SubSeq(line, 1, tab - 1))
        val == Base64Decode(Tail_(line, tab + 1))
    IN  IF line = << >> \/ tab = 0 THEN aliases
        ELSE IF ~key.ok \/ ~val.ok THEN aliases
        ELSE IF key.out = << >> THEN aliases
        ELSE IF val.out = << >> THEN EraseAlias(aliases, key.out)
        ELSE PutAlias(aliases, key.out, val.out)

RECURSIVE ParseAliasFold(_, _, _)
ParseAliasFold(lines, i, aliases) ==
    IF i > Len(lines) THEN aliases
    ELSE ParseAliasFold(lines, i + 1, ParseAliasLine(lines[i], aliases))

ParseAliasContent(content) == ParseAliasFold(GetLines(content), 1, EmptyAliases)

\* std::sort of the items by key, ascending.
RECURSIVE SortKeys(_)
SortKeys(S) ==
    IF S = {} THEN << >>
    ELSE LET m == CHOOSE x \in S : \A y \in S \ {x} : StrLess(x, y)
         IN  << m >> \o SortKeys(S \ {m})

\* The text written with the keys in descending order.
WriteAliases_Descending(aliases) ==
    LET items == SortKeys(DOMAIN aliases)
        n == Len(items)
    IN  Concat([i \in DOMAIN items |->
                  IF items[n + 1 - i] = << >> \/ aliases[items[n + 1 - i]] = << >>
                  THEN << >>
                  ELSE AliasLine(items[n + 1 - i], aliases[items[n + 1 - i]])])

\* WriteAliases: the text written to the descriptor.
WriteAliases(aliases) ==
    LET items == SortKeys(DOMAIN aliases)
    IN  Concat([i \in DOMAIN items |->
                  IF items[i] = << >> \/ aliases[items[i]] = << >>
                  THEN << >>
                  ELSE AliasLine(items[i], aliases[items[i]])])

\* The update applied to an empty mapping instead of the one read.
SetAliasInContent_Fresh(content, key, alias) ==
    IF alias = << >> THEN EraseAlias(EmptyAliases, key)
    ELSE PutAlias(EmptyAliases, key, alias)

\* The read-modify part of SetAliasForKeyAtPath.
SetAliasInContent(content, key, alias) ==
    LET aliases == ParseAliasContent(content)
    IN  IF alias = << >> THEN EraseAlias(aliases, key)
        ELSE PutAlias(aliases, key, alias)


(***************************************************************************)
(* The alias store run by concurrent processes (specification SpecAlias):  *)
(* two SetAliasForKeyAtPath calls with distinct keys and a load.           *)
(***************************************************************************)
Setters == {"s1", "s2"}
AliasLoaders == {"g1"}
AliasProcs == Setters \cup AliasLoaders
AliasPath == "aliases.log"
AliasNames == {AliasPath} \cup AliasProcs

KeyX == << 120 >>
KeyY == << 121 >>
KeyZ == << 122 >>
ValP == << 80 >>
ValQ == << 81 >>
ValR == << 82 >>

\* The arguments of the calls.
SetKey(p) == IF p = "s1" THEN KeyX ELSE KeyY
SetAlias(p) == IF p = "s1" THEN ValP ELSE ValQ

\* The alias files the processes may find: one alias of another key; an
\* older alias of the first key after a line without a tab.
AliasInitContents ==
    { AliasLine(KeyZ, ValR),
      << 65, Ch.lf >> \o AliasLine(KeyX, ValR) }

SetLockMode == "ex"
AliasLoadLockMode == "sh"

AliasInit ==
    /\ hlog = NoFile
    /\ hop = NoOp
    /\ pcmd = NoPickCmd
    /\ sess = NoSess
    /\ tui = NoPick
    /\ tty = NoTty
    /\ obs = NoObs
    /\ afile = NoFile
    /\ aop = NoAliasOp
    /\ rec = NoRecord
    /\ clog = NoFile
    /\ b64 = NoCodec
    /\ exe = NoExec
    /\ tk = NoTok
    /\ pc = [p \in AliasProcs |-> "idle"]
    /\ fd = [p \in AliasProcs |-> 0]
    /\ lk = [p \in AliasProcs |-> "none"]
    /\ loc = [p \in AliasProcs |-> << >>]
    /\ ret = [p \in AliasProcs |-> << >>]
    /\ \/ /\ dirent = [n \in AliasNames |-> 0]
          /\ inodes = << >>
          /\ log0 = << >>
       \/ \E content \in AliasInitContents :
            /\ dirent = [n \in AliasNames |-> IF n = AliasPath THEN 1 ELSE 0]
            /\ inodes = << content >>
            /\ log0 = content

\* ---- SetAliasForKeyAtPath ----
\* open(path, O_RDWR | O_CREAT)
SetOpen(p) ==
    /\ pc[p] = "idle"
    /\ IF dirent[AliasPath] = 0
       THEN /\ inodes' = Append(inodes, << >>)
            /\ dirent' = [dirent EXCEPT ![AliasPath] = Len(inodes) + 1]
       ELSE UNCHANGED << inodes, dirent >>
    /\ fd' = [fd EXCEPT ![p] = dirent'[AliasPath]]
    /\ pc' = [pc EXCEPT ![p] = "lock"]
    /\ UNCHANGED << lk, loc, ret, log0, histVars, execVars, tokVars, codecVars, cmdLogVars, recordVars, aliasVars, pickVars, pickCmdVars, sessVars >>

SetLock(p) ==
    /\ pc[p] = "lock"
    /\ LockFree(p, fd[p], SetLockMode)
    /\ lk' = [lk EXCEPT ![p] = SetLockMode]
    /\ pc' = [pc EXCEPT ![p] = "read"]
    /\ UNCHANGED << dirent, inodes, fd, loc, ret, log0, histVars, execVars, tokVars, codecVars, cmdLogVars, recordVars, aliasVars, pickVars, pickCmdVars, sessVars >>

\* ReadAllFromFd, ParseAliasContent, then aliases[key] = alias or erase.
SetRead(p) ==
    /\ pc[p] = "read"
    /\ loc' = [loc EXCEPT ![p] =
                 [aliases |-> SetAliasInContent(inodes[fd[p]], SetKey(p), SetAlias(p)),
                  tmp |-> 0]]
    /\ pc' = [pc EXCEPT ![p] = "mkstemp"]
    /\ UNCHANGED << dirent, inodes, fd, lk, ret, log0, histVars, execVars, tokVars, codecVars, cmdLogVars, recordVars, aliasVars, pickVars, pickCmdVars, sessVars >>

\* mkstemp: a new name, the process's own, on a new empty inode.
SetMkstemp(p) ==
    /\ pc[p] = "mkstemp"
    /\ inodes' = Append(inodes, << >>)
    /\ dirent' = [dirent EXCEPT ![p] = Len(inodes) + 1]
    /\ loc' = [loc EXCEPT ![p].tmp = Len(inodes) + 1]
    /\ pc' = [pc EXCEPT ![p] = "write"]
    /\ UNCHANGED << fd, lk, ret, log0, histVars, execVars, tokVars, codecVars, cmdLogVars, recordVars, aliasVars, pickVars, pickCmdVars, sessVars >>

\* WriteAliases to the temporary file, fsync.
SetWrite(p) ==
    /\ pc[p] = "write"
    /\ inodes' = [inodes EXCEPT ![loc[p].tmp] = WriteAliases(loc[p].aliases)]
    /\ pc' = [pc EXCEPT ![p] = "rename"]
    /\ UNCHANGED << dirent, fd, lk, loc, ret, log0, histVars, execVars, tokVars, codecVars, cmdLogVars, recordVars, aliasVars, pickVars, pickCmdVars, sessVars >>

\* rename(tmp_path, path): the alias name now refers to the temporary inode.
SetRename(p) ==
    /\ pc[p] = "rename"
    /\ dirent' = [dirent EXCEPT ![AliasPath] = loc[p].tmp, ![p] = 0]
    /\ pc' = [pc EXCEPT ![p] = "return"]
    /\ UNCHANGED << inodes, fd, lk, loc, ret, log0, histVars, execVars, tokVars, codecVars, cmdLogVars, recordVars, aliasVars, pickVars, pickCmdVars, sessVars >>

\* FsyncDir, return true: unlock and close.
SetReturn(p) ==
    /\ pc[p] = "return"
    /\ ret' = [ret EXCEPT ![p] = [ok |-> TRUE]]
    /\ lk' = [lk EXCEPT ![p] = "none"]
    /\ fd' = [fd EXCEPT ![p] = 0]
    /\ pc' = [pc EXCEPT ![p] = "done"]
    /\ UNCHANGED << dirent, inodes, loc, log0, histVars, execVars, tokVars, codecVars, cmdLogVars, recordVars, aliasVars, pickVars, pickCmdVars, sessVars >>

\* ---- LoadAliasesFromPath ----
\* open(path, O_RDONLY): ENOENT is an empty mapping.  The load notes whether
\* both updates had returned when it started.
AliasLoadOpen(p) ==
    /\ pc[p] = "idle"
    /\ LET after == \A q \in Setters : pc[q] = "done"
       IN  IF dirent[AliasPath] = 0
           THEN /\ ret' = [ret EXCEPT ![p] = [ok |-> TRUE, aliases |-> EmptyAliases]]
                /\ loc' = [loc EXCEPT ![p] = [after |-> after]]
                /\ pc' = [pc EXCEPT ![p] = "done"]
                /\ UNCHANGED fd
           ELSE /\ fd' = [fd EXCEPT ![p] = dirent[AliasPath]]
                /\ loc' = [loc EXCEPT ![p] = [after |-> after]]
                /\ pc' = [pc EXCEPT ![p] = "lock"]
                /\ UNCHANGED ret
    /\ UNCHANGED << dirent, inodes, lk, log0, histVars, execVars, tokVars, codecVars, cmdLogVars, recordVars, aliasVars, pickVars, pickCmdVars, sessVars >>

AliasLoadLock(p) ==
    /\ pc[p] = "lock"
    /\ LockFree(p, fd[p], AliasLoadLockMode)
    /\ lk' = [lk EXCEPT ![p] = AliasLoadLockMode]
    /\ pc' = [pc EXCEPT ![p] = "read"]
    /\ UNCHANGED << dirent, inodes, fd, loc, ret, log0, histVars, execVars, tokVars, codecVars, cmdLogVars, recordVars, aliasVars, pickVars, pickCmdVars, sessVars >>

\* ReadAllFromFd, ParseAliasContent, return true: unlock and close.
AliasLoadRead(p) ==
    /\ pc[p] = "read"
    /\ ret' = [ret EXCEPT ![p] =
                 [ok |-> TRUE, aliases |-> ParseAliasContent(inodes[fd[p]])]]
    /\ lk' = [lk EXCEPT ![p] = "none"]
    /\ fd' = [fd EXCEPT ![p] = 0]
    /\ pc' = [pc EXCEPT ![p] = "done"]
    /\ UNCHANGED << dirent, inodes, loc, log0, histVars, execVars, tokVars, codecVars, cmdLogVars, recordVars, aliasVars, pickVars, pickCmdVars, sessVars >>

AliasNext ==
    \/ \E p \in Setters : SetOpen(p)
    \/ \E p \in Setters : SetLock(p)
    \/ \E p \in Setters : SetRead(p)
    \/ \E p \in Setters : SetMkstemp(p)
    \/ \E p \in Setters : SetWrite(p)
    \/ \E p \in Setters : SetRename(p)
    \/ \E p \in Setters : SetReturn(p)
    \/ \E p \in AliasLoaders : AliasLoadOpen(p)
    \/ \E p \in AliasLoaders : AliasLoadLock(p)
    \/ \E p \in AliasLoaders : AliasLoadRead(p)

SpecAlias == AliasInit /\ [][AliasNext]_vars

\* The mapping a load finds at the alias path.
AliasesNow ==
    IF dirent[AliasPath] = 0 THEN EmptyAliases
    ELSE ParseAliasContent(inodes[dirent[AliasPath]])

HasAlias(aliases, key, val) == key \in DOMAIN aliases /\ aliases[key] = val

\* C2: once the two SetOrClear calls, of distinct keys and non-empty aliases,
\* have both returned success, the mapping at the alias path holds both
\* key -> alias pairs, and so does the result of a load started afterwards.
C2_NoLostAliasUpdate ==
    (\A p \in Setters : pc[p] = "done" /\ ret[p].ok)
    => /\ \A p \in Setters : HasAlias(AliasesNow, SetKey(p), SetAlias(p))
       /\ \A g \in AliasLoaders :
            (pc[g] = "done" /\ loc[g].after)
            => \A p \in Setters : HasAlias(ret[g].aliases, SetKey(p), SetAlias(p))


(***************************************************************************)
(* The validator, the tokenizer and the exec operation (specification      *)
(* SpecExec).                                                              *)
(***************************************************************************)
IsControlChar(c) == c < 32 \/ c = 127

ContainsControlChars(input) ==
    \E i \in 1 .. Len(input) : IsControlChar(input[i])

\* The switch of ContainsForbiddenMetachars without case '`'.
IsForbiddenMetachar_NoBackquote(c) ==
    c \in {Ch.semi, Ch.bar, Ch.amp, Ch.dollar, Ch.lparen, Ch.rparen,
           Ch.lt, Ch.gt}

IsForbiddenMetachar(c) ==
    c \in {Ch.semi, Ch.bar, Ch.amp, Ch.bquote, Ch.dollar, Ch.lparen, Ch.rparen,
           Ch.lt, Ch.gt}

ContainsForbiddenMetachars(input) ==
    \E i \in 1 .. Len(input) : IsForbiddenMetachar(input[i])

\* The loop of TokenizeArgs from index i (1-based) in the given state.
RECURSIVE TokenizeLoop(_, _, _, _, _)
TokenizeLoop(input, i, state, cur, out) ==
    IF i > Len(input)
    THEN IF state # "kNormal" THEN [ok |-> FALSE, out |-> out, err |-> "unterminated quote"]
         ELSE [ok |-> TRUE, err |-> "",
               out |-> IF cur # << >> THEN Append(out, cur) ELSE out]
    ELSE LET c == input[i]
             escaped == IF i + 1 <= Len(input) THEN input[i + 1] ELSE Ch.bslash
             after == IF i + 1 <= Len(input) THEN i + 2 ELSE i + 1
         IN  CASE state = "kNormal" ->
                    IF c = Ch.bslash
                    THEN TokenizeLoop(input, after, state, Append(cur, escaped), out)
                    ELSE IF c = Ch.sq
                    THEN TokenizeLoop(input, i + 1, "kSingle", cur, out)
                    ELSE IF c = Ch.dq
                    THEN TokenizeLoop(input, i + 1, "kDouble", cur, out)
                    ELSE IF IsSpaceC(c)
                    THEN TokenizeLoop(input, i + 1, state, << >>,
                                      IF cur # << >> THEN Append(out, cur) ELSE out)
                    ELSE TokenizeLoop(input, i + 1, state, Append(cur, c), out)
               [] state = "kSingle" ->
                    IF c = Ch.sq
                    THEN TokenizeLoop(input, i + 1, "kNormal", cur, out)
                    ELSE TokenizeLoop(input, i + 1, state, Append(cur, c), out)
               [] OTHER ->
                    IF c = Ch.dq
                    THEN TokenizeLoop(input, i + 1, "kNormal", cur, out)
                    ELSE IF c = Ch.bslash
                    THEN TokenizeLoop(input, after, state, Append(cur, escaped), out)
                    ELSE TokenizeLoop(input, i + 1, state, Append(cur, c), out)

TokenizeArgs(input) == TokenizeLoop(input, 1, "kNormal", << >>, << >>)

\* "ssh"
SshProgram == << 115, 115, 104 >>

Exited(status) == [pc |-> "exited", status |-> status]

\* CommandExec: the exit status it returns, or the image execvp replaced the
\* process with (the program looked up on PATH and its argument vector).
\* execvp_ok says whether execvp succeeds.
CommandExec(argc, args_string, execvp_ok) ==
    IF argc # 3 THEN Exited(1)
    ELSE IF ContainsControlChars(args_string) THEN Exited(1)
    ELSE IF ContainsForbiddenMetachars(args_string) THEN Exited(1)
    ELSE LET t == TokenizeArgs(args_string)
             argv_exec == << SshProgram >> \o t.out
         IN  IF ~t.ok THEN Exited(1)
             ELSE IF execvp_ok
             THEN [pc |-> "replaced", file |-> argv_exec[1], argv |-> argv_exec]
             ELSE Exited(1)

\* The bytes an argument string is made of: a letter, the separators and
\* quoting characters, every forbidden metacharacter, control characters.
ArgChars ==
    {97, Ch.sp, Ch.sq, Ch.dq, Ch.bslash,
     Ch.semi, Ch.bar, Ch.amp, Ch.bquote, Ch.dollar, Ch.lparen, Ch.rparen,
     Ch.lt, Ch.gt, Ch.tab, 31, Ch.del}

ArgStrings == UNION { [1 .. n -> ArgChars] : n \in 0 .. MaxArgLen }

\* The process was started as `sshtab exec` with argc - 2 further arguments,
\* the first of them args_string.
ExecInit ==
    /\ hlog = NoFile
    /\ hop = NoOp
    /\ pcmd = NoPickCmd
    /\ sess = NoSess
    /\ tui = NoPick
    /\ tty = NoTty
    /\ obs = NoObs
    /\ afile = NoFile
    /\ aop = NoAliasOp
    /\ rec = NoRecord
    /\ clog = NoFile
    /\ b64 = NoCodec
    /\ ProcsIdle
    /\ dirent = [n \in Names |-> 0]
    /\ inodes = << >>
    /\ log0 = << >>
    /\ tk = NoTok
    /\ \/ exe = [pc |-> "start", argc |-> 2, args_string |-> << >>]
       \/ \E argc \in {3, 4}, s \in ArgStrings :
            exe = [pc |-> "start", argc |-> argc, args_string |-> s]

ExecRun ==
    /\ exe.pc = "start"
    /\ \E execvp_ok \in BOOLEAN :
         exe' = [argc |-> exe.argc, args_string |-> exe.args_string]
                @@ CommandExec(exe.argc, exe.args_string, execvp_ok)
    /\ UNCHANGED << histVars, fsVars, tokVars, codecVars, cmdLogVars, recordVars, aliasVars, pickVars, pickCmdVars, sessVars >>

ExecNext == ExecRun

SpecExec == ExecInit /\ [][ExecNext]_vars

\* The bytes the claim names.
ControlBytes == (0 .. 31) \cup {127}
ForbiddenBytes == {59, 124, 38, 96, 36, 40, 41, 60, 62}
BytesOf(s) == { s[i] : i \in 1 .. Len(s) }

\* The three checks pass on the argument string.
SafeToExec(s) ==
    /\ BytesOf(s) \cap ControlBytes = {}
    /\ BytesOf(s) \cap ForbiddenBytes = {}
    /\ TokenizeArgs(s).ok

\* C10: exec replaces the process only when it was given one argument string
\* that has no control character, none of ; | & ` $ ( ) < > anywhere and that
\* TokenizeArgs accepts; when one of the three checks fails it exits non-zero
\* without replacing the process; the program that replaces it is ssh itself,
\* with argv ["ssh"] followed by the tokens.
C10_ExecOnlySafeStrings ==
    /\ exe.pc = "replaced" =>
         /\ exe.argc = 3
         /\ SafeToExec(exe.args_string)
         /\ exe.file = SshProgram
         /\ exe.argv = << SshProgram >> \o TokenizeArgs(exe.args_string).out
    /\ (exe.pc \in {"exited", "replaced"} /\ ~SafeToExec(exe.args_string)) =>
         exe.pc = "exited" /\ exe.status # 0

\* exec, given a quoted space, replaced the process with ssh and one argument,
\* the space.
C10_Witness ==
    /\ exe.pc = "replaced"
    /\ exe.args_string = << Ch.dq, Ch.sp, Ch.dq >>
    /\ exe.argv = << SshProgram, << Ch.sp >> >>


(***************************************************************************)
(* TokenizeArgs run one loop iteration at a time (specification SpecTok).  *)
(***************************************************************************)
\* What a backslash at index i appends, and the index the loop goes on from.
Escaped(input, i) == IF i + 1 <= Len(input) THEN input[i + 1] ELSE Ch.bslash
AfterEscape(input, i) == IF i + 1 <= Len(input) THEN i + 2 ELSE i + 1

LoopVars(i, state, cur, out) == [i |-> i, state |-> state, cur |-> cur, out |-> out]

\* The iteration with a backslash escaping the next character inside single
\* quotes too.
TokenizeStep_EscapeInSingle(input, i, state, cur, out) ==
    LET c == input[i]
    IN  IF state = "kNormal" /\ c = Ch.sq THEN LoopVars(i + 1, "kSingle", cur, out)
        ELSE IF state = "kNormal" /\ c = Ch.dq THEN LoopVars(i + 1, "kDouble", cur, out)
        ELSE IF state = "kSingle" /\ c = Ch.sq THEN LoopVars(i + 1, "kNormal", cur, out)
        ELSE IF state = "kDouble" /\ c = Ch.dq THEN LoopVars(i + 1, "kNormal", cur, out)
        ELSE IF c = Ch.bslash
        THEN LoopVars(AfterEscape(input, i), state, Append(cur, Escaped(input, i)), out)
        ELSE IF state = "kNormal" /\ IsSpaceC(c)
        THEN LoopVars(i + 1, state, << >>, IF cur # << >> THEN Append(out, cur) ELSE out)
        ELSE LoopVars(i + 1, state, Append(cur, c), out)

\* The iteration with a quote opened inside a quoted span of the other kind
\* closing it.
TokenizeStep_AnyQuoteCloses(input, i, state, cur, out) ==
    LET c == input[i]
    IN  IF state = "kNormal" /\ c = Ch.bslash
        THEN LoopVars(AfterEscape(input, i), state, Append(cur, Escaped(input, i)), out)
        ELSE IF state = "kNormal" /\ c = Ch.sq THEN LoopVars(i + 1, "kSingle", cur, out)
        ELSE IF state = "kNormal" /\ c = Ch.dq THEN LoopVars(i + 1, "kDouble", cur, out)
        ELSE IF state = "kNormal" /\ IsSpaceC(c)
        THEN LoopVars(i + 1, state, << >>, IF cur # << >> THEN Append(out, cur) ELSE out)
        ELSE IF state # "kNormal" /\ c \in {Ch.sq, Ch.dq}
        THEN LoopVars(i + 1, "kNormal", cur, out)
        ELSE IF state = "kDouble" /\ c = Ch.bslash
        THEN LoopVars(AfterEscape(input, i), state, Append(cur, Escaped(input, i)), out)
        ELSE LoopVars(i + 1, state, Append(cur, c), out)

\* One iteration of the for loop of TokenizeArgs, i <= Len(input): the loop
\* variables after it (i counts from 1 and already holds the ++i of the for).
TokenizeStep(input, i, state, cur, out) ==
    LET c == input[i]
    IN  CASE state = "kNormal" ->
               IF c = Ch.bslash
               THEN LoopVars(AfterEscape(input, i), state,
                             Append(cur, Escaped(input, i)), out)
               ELSE IF c = Ch.sq THEN LoopVars(i + 1, "kSingle", cur, out)
               ELSE IF c = Ch.dq THEN LoopVars(i + 1, "kDouble", cur, out)
               ELSE IF IsSpaceC(c)
               THEN LoopVars(i + 1, state, << >>,
                             IF cur # << >> THEN Append(out, cur) ELSE out)
               ELSE LoopVars(i + 1, state, Append(cur, c), out)
          [] state = "kSingle" ->
               IF c = Ch.sq THEN LoopVars(i + 1, "kNormal", cur, out)
               ELSE LoopVars(i + 1, state, Append(cur, c), out)
          [] OTHER ->
               IF c = Ch.dq THEN LoopVars(i + 1, "kNormal", cur, out)
               ELSE IF c = Ch.bslash
               THEN LoopVars(AfterEscape(input, i), state,
                             Append(cur, Escaped(input, i)), out)
               ELSE LoopVars(i + 1, state, Append(cur, c), out)

\* The end of TokenizeArgs with the last token pushed even when empty.
TokenizeEnd_AlwaysPush(state, cur, out) ==
    IF state # "kNormal"
    THEN [ok |-> FALSE, out |-> out, err |-> "unterminated quote"]
    ELSE [ok |-> TRUE, out |-> Append(out, cur), err |-> ""]

\* After the loop: unterminated quote, or the last token and success.
TokenizeEnd(state, cur, out) ==
    IF state # "kNormal"
    THEN [ok |-> FALSE, out |-> out, err |-> "unterminated quote"]
    ELSE [ok |-> TRUE, out |-> IF cur # << >> THEN Append(out, cur) ELSE out,
          err |-> ""]

\* The bytes of the inputs: a letter, white space, the quotes, the backslash.
TokChars == {97, Ch.sp, Ch.tab, Ch.sq, Ch.dq, Ch.bslash}

\* The inputs of TestTokenize.
TestTokenizeInputs ==
    { << 117, 115, 101, 114, 64, 104, 111, 115, 116, 32, 45, 112, 32, 50, 50 >>,
      << 117, 115, 101, 114, 64, 104, 111, 115, 116, 32, 45, 105, 32, 39, 105, 100, 32, 102, 105, 108, 101, 39, 32, 45, 74, 32, 34, 106, 117, 109, 112, 32, 104, 111, 115, 116, 34 >>,
      << 117, 115, 101, 114, 64, 104, 111, 115, 116, 32, 34, 117, 110, 116, 101, 114, 109, 105, 110, 97, 116, 101, 100 >> }

TokInputs ==
    UNION { [1 .. n -> TokChars] : n \in 0 .. MaxTokLen } \cup TestTokenizeInputs

TokInit ==
    /\ hlog = NoFile
    /\ hop = NoOp
    /\ pcmd = NoPickCmd
    /\ sess = NoSess
    /\ tui = NoPick
    /\ tty = NoTty
    /\ obs = NoObs
    /\ afile = NoFile
    /\ aop = NoAliasOp
    /\ rec = NoRecord
    /\ clog = NoFile
    /\ b64 = NoCodec
    /\ exe = NoExec
    /\ ProcsIdle
    /\ dirent = [n \in Names |-> 0]
    /\ inodes = << >>
    /\ log0 = << >>
    /\ \E input \in TokInputs :
         tk = [pc |-> "loop", input |-> input, iterations |-> 0,
               v |-> LoopVars(1, "kNormal", << >>, << >>)]

\* One iteration of the loop.
TokStep ==
    /\ tk.pc = "loop"
    /\ tk.v.i <= Len(tk.input)
    /\ tk' = [tk EXCEPT
                !.v = TokenizeStep(tk.input, tk.v.i, tk.v.state, tk.v.cur, tk.v.out),
                !.iterations = @ + 1]
    /\ UNCHANGED << histVars, fsVars, execVars, codecVars, cmdLogVars, recordVars, aliasVars, pickVars, pickCmdVars, sessVars >>

\* The loop is left and the call returns.
TokReturn ==
    /\ tk.pc = "loop"
    /\ tk.v.i > Len(tk.input)
    /\ tk' = [pc |-> "done", input |-> tk.input, iterations |-> tk.iterations,
              v |-> tk.v, r |-> TokenizeEnd(tk.v.state, tk.v.cur, tk.v.out)]
    /\ UNCHANGED << histVars, fsVars, execVars, codecVars, cmdLogVars, recordVars, aliasVars, pickVars, pickCmdVars, sessVars >>

TokNext == TokStep \/ TokReturn

SpecTok == TokInit /\ [][TokNext]_vars


(***************************************************************************)
(* The quoting grammar, read span by span: the input is a sequence of      *)
(* separators (unquoted white space) and segments (an unquoted character,  *)
(* an escaped character, a quoted span without its quotes).                *)
(***************************************************************************)
WhiteSpace == {32, 9, 10, 11, 12, 13}

Seg(text) == [t |-> "seg", text |-> text]
Sep == [t |-> "sep", text |-> << >>]
\* A backslash that ends the input outside quotes: there is no next character.
Lone == [t |-> "lone", text |-> << 92 >>]

\* The text of the double-quoted span that starts at k, and the index after
\* its closing quote; next = 0 when the input ends inside the span.
RECURSIVE GrammarDouble(_, _, _)
GrammarDouble(s, k, acc) ==
    IF k > Len(s) THEN [next |-> 0, text |-> acc]
    ELSE IF s[k] = 34 THEN [next |-> k + 1, text |-> acc]
    ELSE IF s[k] = 92
    THEN IF k + 1 > Len(s) THEN [next |-> 0, text |-> acc]
         ELSE GrammarDouble(s, k + 2, Append(acc, s[k + 1]))
    ELSE GrammarDouble(s, k + 1, Append(acc, s[k]))

\* The items of the input from index i on; ok is false when the input ends
\* inside a quoted span.
RECURSIVE GrammarItems(_, _, _)
GrammarItems(s, i, items) ==
    IF i > Len(s) THEN [ok |-> TRUE, items |-> items]
    ELSE IF s[i] = 39
    THEN LET close == Find(s, 39, i + 1)
         IN  IF close = 0 THEN [ok |-> FALSE, items |-> items]
             ELSE GrammarItems(s, close + 1,
                               Append(items, Seg(SubSeq(s, i + 1, close - 1))))
    ELSE IF s[i] = 34
    THEN LET span == GrammarDouble(s, i + 1, << >>)
         IN  IF span.next = 0 THEN [ok |-> FALSE, items |-> items]
             ELSE GrammarItems(s, span.next, Append(items, Seg(span.text)))
    ELSE IF s[i] = 92
    THEN IF i + 1 > Len(s) THEN [ok |-> TRUE, items |-> Append(items, Lone)]
         ELSE GrammarItems(s, i + 2, Append(items, Seg(<< s[i + 1] >>)))
    ELSE IF s[i] \in WhiteSpace THEN GrammarItems(s, i + 1, Append(items, Sep))
    ELSE GrammarItems(s, i + 1, Append(items, Seg(<< s[i] >>)))

\* The tokens of a sequence of items: adjacent segments join into one token.
\* The grammar leaves two cases open, decided by the parameters: whether a
\* token made of empty quoted spans only is a token, and whether a lone final
\* backslash stands for itself.
RECURSIVE GrammarJoin(_, _, _, _, _, _, _)
GrammarJoin(items, k, open, text, out, keepEmpty, keepLone) ==
    LET emit == IF open /\ (text # << >> \/ keepEmpty) THEN Append(out, text) ELSE out
    IN  IF k > Len(items) THEN emit
        ELSE IF items[k].t = "sep"
        THEN GrammarJoin(items, k + 1, FALSE, << >>, emit, keepEmpty, keepLone)
        ELSE IF items[k].t = "lone" /\ ~keepLone
        THEN GrammarJoin(items, k + 1, open, text, out, keepEmpty, keepLone)
        ELSE GrammarJoin(items, k + 1, TRUE, text \o items[k].text, out,
                         keepEmpty, keepLone)

GrammarTokens(s, keepEmpty, keepLone) ==
    GrammarJoin(GrammarItems(s, 1, << >>).items, 1, FALSE, << >>, << >>,
                keepEmpty, keepLone)

\* C11: when TokenizeArgs succeeds its tokens are those of the quoting
\* grammar: unquoted white space separates, single-quoted spans are verbatim,
\* a backslash inside double quotes or outside quotes is dropped and the next
\* character copied, quotes are removed and adjacent segments join.
C11_TokensOfGrammar ==
    (tk.pc = "done" /\ tk.r.ok) =>
        \E keepEmpty, keepLone \in BOOLEAN :
            tk.r.out = GrammarTokens(tk.input, keepEmpty, keepLone)

\* The second input of TestTokenize gave 5 tokens, "id file" and "jump host"
\* among them.
C11_Witness ==
    /\ tk.pc = "done" /\ tk.r.ok
    /\ Len(tk.input) > MaxTokLen
    /\ Len(tk.r.out) = 5
    /\ tk.r.out[3] = << 105, 100, 32, 102, 105, 108, 101 >>
    /\ tk.r.out[5] = << 106, 117, 109, 112, 32, 104, 111, 115, 116 >>

\* C12: TokenizeArgs fails, with "unterminated quote", exactly when the input
\* ends inside a quoted span; and it terminates: each iteration moves the
\* index forward, never beyond one past the end, so there are at most
\* Len(input) iterations.
C12_FailsIffUnterminated ==
    /\ tk.pc = "done" =>
         /\ tk.r.ok <=> GrammarItems(tk.input, 1, << >>).ok
         /\ ~tk.r.ok => tk.r.err = "unterminated quote"
    /\ tk.pc \in {"loop", "done"} =>
         /\ tk.iterations <= tk.v.i - 1
         /\ tk.v.i <= Len(tk.input) + 1
         /\ tk.iterations <= Len(tk.input)

\* The third input of TestTokenize, which ends inside double quotes, failed
\* after the loop went through it.
C12_Witness ==
    /\ tk.pc = "done" /\ ~tk.r.ok
    /\ Len(tk.input) > MaxTokLen
    /\ tk.v.state = "kDouble"
    /\ tk.v.i = Len(tk.input) + 1


(***************************************************************************)
(* Base64Encode followed by Base64Decode (specification SpecCodec).        *)
(***************************************************************************)
\* The bytes of the strings encoded: NUL, tab, line feed, a letter, and two
\* bytes whose bits give the digits '+' and '/'.
ByteChars == {0, Ch.tab, Ch.lf, 97, 251, 255}

ByteStrings == UNION { [1 .. n -> ByteChars] : n \in 0 .. MaxBytesLen }

CodecInit ==
    /\ hlog = NoFile
    /\ hop = NoOp
    /\ pcmd = NoPickCmd
    /\ sess = NoSess
    /\ tui = NoPick
    /\ tty = NoTty
    /\ obs = NoObs
    /\ afile = NoFile
    /\ aop = NoAliasOp
    /\ rec = NoRecord
    /\ clog = NoFile
    /\ exe = NoExec
    /\ tk = NoTok
    /\ ProcsIdle
    /\ dirent = [n \in Names |-> 0]
    /\ inodes = << >>
    /\ log0 = << >>
    /\ \E b \in ByteStrings : b64 = [pc |-> "encode", input |-> b]

CodecEncode ==
    /\ b64.pc = "encode"
    /\ b64' = [pc |-> "decode", input |-> b64.input,
               encoded |-> Base64Encode(b64.input)]
    /\ UNCHANGED << histVars, fsVars, execVars, tokVars, cmdLogVars, recordVars, aliasVars, pickVars, pickCmdVars, sessVars >>

CodecDecode ==
    /\ b64.pc = "decode"
    /\ b64' = [pc |-> "done", input |-> b64.input, encoded |-> b64.encoded,
               decoded |-> Base64Decode(b64.encoded)]
    /\ UNCHANGED << histVars, fsVars, execVars, tokVars, cmdLogVars, recordVars, aliasVars, pickVars, pickCmdVars, sessVars >>

CodecNext == CodecEncode \/ CodecDecode

SpecCodec == CodecInit /\ [][CodecNext]_vars

\* C13: Base64Decode of the output of Base64Encode succeeds and returns the
\* bytes encoded, whatever they are.
C13_Base64RoundTrip ==
    b64.pc = "done" => b64.decoded.ok /\ b64.decoded.out = b64.input

\* A string with a NUL, a tab, a line feed and a byte above 127 came back.
C13_Witness ==
    /\ b64.pc = "done"
    /\ b64.input = << 0, Ch.tab, Ch.lf, 255 >>
    /\ b64.decoded = [ok |-> TRUE, out |-> << 0, Ch.tab, Ch.lf, 255 >>]


(***************************************************************************)
(* The record operation (specification SpecRecord): ParseIntArg,           *)
(* NormalizeSshCommand and CommandRecord.                                  *)
(***************************************************************************)
IsSpace(c) == c \in {Ch.sp, Ch.tab, Ch.lf, Ch.cr}

RECURSIVE TrimStart(_, _)
TrimStart(s, start) ==
    IF start <= Len(s) /\ IsSpace(s[start]) THEN TrimStart(s, start + 1) ELSE start

RECURSIVE TrimEnd(_, _, _)
TrimEnd(s, start, end) ==
    IF end >= start /\ IsSpace(s[end]) THEN TrimEnd(s, start, end - 1) ELSE end

\* start is the index of the first byte kept, end that of the last.
TrimSpace(s) ==
    LET start == TrimStart(s, 1)
    IN  SubSeq(s, start, TrimEnd(s, start, Len(s)))

RECURSIVE CollapseLoop(_, _, _, _)
CollapseLoop(s, i, in_space, out) ==
    IF i > Len(s) THEN out
    ELSE IF IsSpace(s[i])
    THEN CollapseLoop(s, i + 1, TRUE, IF in_space THEN out ELSE Append(out, Ch.sp))
    ELSE CollapseLoop(s, i + 1, FALSE, Append(out, s[i]))

CollapseSpaces(s) == TrimSpace(CollapseLoop(s, 1, FALSE, << >>))

SshToken == << 115, 115, 104 >>

StartsWithSshToken(s) ==
    IF Len(s) < 3 THEN FALSE
    ELSE IF SubSeq(s, 1, 3) # SshToken THEN FALSE
    ELSE IF Len(s) = 3 THEN TRUE
    ELSE s[4] \in {Ch.sp, Ch.tab, Ch.lf, Ch.cr}

NormalizeSshCommand(raw) ==
    LET trimmed == TrimSpace(raw)
        rest0 == IF Len(trimmed) > 3 THEN TrimSpace(Tail_(trimmed, 4)) ELSE << >>
        rest_trim == TrimSpace(rest0)
        rest1 == IF /\ Len(rest_trim) >= 2
                    /\ rest_trim[1] \in {Ch.sq, Ch.dq}
                    /\ rest_trim[Len(rest_trim)] = rest_trim[1]
                 THEN SubSeq(rest_trim, 2, Len(rest_trim) - 1)
                 ELSE rest_trim
        rest == CollapseSpaces(rest1)
    IN  IF trimmed = << >> THEN [ok |-> FALSE, out |-> << >>]
        ELSE IF ~StartsWithSshToken(trimmed) THEN [ok |-> FALSE, out |-> << >>]
        ELSE IF rest0 = << >> THEN [ok |-> TRUE, out |-> SshToken]
        ELSE IF rest = << >> THEN [ok |-> TRUE, out |-> SshToken]
        ELSE [ok |-> TRUE, out |-> SshToken \o << Ch.sp >> \o rest]

\* ParseIntArg: std::from_chars in base 10 must use the whole text: an
\* optional '-', then digits; no white space, no '+'; the value must fit an
\* int.
ParseIntArg(arg) ==
    LET neg == Len(arg) >= 1 /\ arg[1] = Ch.minus
        i1 == IF neg THEN 2 ELSE 1
        i2 == DigitsEnd(arg, i1)
        v == DigitsVal(arg, i1, i2, 0)
        value == IF neg THEN 0 - v ELSE v
    IN  IF i2 = i1 \/ i2 # Len(arg) + 1 THEN [ok |-> FALSE, val |-> 0]
        ELSE IF value > 2147483647 \/ value < (0 - 2147483647) - 1
        THEN [ok |-> FALSE, val |-> 0]
        ELSE [ok |-> TRUE, val |-> value]

FlagExitCode == << 45, 45, 101, 120, 105, 116, 45, 99, 111, 100, 101 >>
FlagRaw == << 45, 45, 114, 97, 119 >>

\* The argument loop of CommandRecord from argv[i] on (args holds argv[2..]).
RECURSIVE RecordArgs(_, _, _, _)
RecordArgs(args, i, exit_code, raw) ==
    IF i > Len(args) THEN [ok |-> TRUE, exit_code |-> exit_code, raw |-> raw]
    ELSE IF args[i] = FlagExitCode
    THEN IF i + 1 > Len(args) \/ ~ParseIntArg(args[i + 1]).ok
         THEN [ok |-> FALSE, exit_code |-> exit_code, raw |-> raw]
         ELSE RecordArgs(args, i + 2, ParseIntArg(args[i + 1]).val, raw)
    ELSE IF args[i] = FlagRaw
    THEN IF i + 1 > Len(args)
         THEN [ok |-> FALSE, exit_code |-> exit_code, raw |-> raw]
         ELSE RecordArgs(args, i + 2, exit_code, args[i + 1])
    ELSE [ok |-> FALSE, exit_code |-> exit_code, raw |-> raw]

\* CommandRecord: the exit status and the two logs it leaves.  now1 and now2
\* are the times of the two appends, io says which append fails: none, the
\* first, the second.
CommandRecord(args, history, commands, now1, now2, io) ==
    LET a == RecordArgs(args, 1, -1, << >>)
        n == NormalizeSshCommand(a.raw)
        same(status) == [status |-> status, history |-> history, commands |-> commands]
    IN  IF ~a.ok THEN same(1)
        ELSE IF a.exit_code < 0 THEN same(1)
        ELSE IF a.raw = << >> THEN same(1)
        ELSE IF ContainsControlChars(a.raw) THEN same(0)
        ELSE IF a.exit_code # 0 THEN same(0)
        ELSE IF ~n.ok THEN same(0)
        ELSE IF io = "first" THEN same(1)
        ELSE IF io = "second"
        THEN [status |-> 1,
              history |-> AppendHistoryToPath(history, n.out, a.exit_code, now1),
              commands |-> commands]
        ELSE [status |-> 0,
              history |-> AppendHistoryToPath(history, n.out, a.exit_code, now1),
              commands |-> AppendHistoryToPath(commands, n.out, a.exit_code, now2)]


\* The raw commands: white space or none, a first word, what follows it
\* (nothing, an argument, a quoted argument with two spaces inside, spaces, a
\* tab, a DEL byte); the empty string and a string of spaces.
RawLeads == { << >>, << Ch.sp >> }
RawWords == { << 115, 115, 104 >>, << 115, 115, 104, 120 >>, << 115, 99, 112 >>, << 83, 115, 104 >> }
RawRests == { << >>, << 32, 104 >>, << 32, 39, 104, 32, 32, 104, 39, 32 >>, << Ch.sp, Ch.sp >>, << Ch.tab, 104 >>,
              << Ch.sp, 104, Ch.del >> }
RawCommands ==
    { l \o w \o r : l \in RawLeads, w \in RawWords, r \in RawRests }
    \cup { << >>, << Ch.sp, Ch.sp >> }

\* The exit codes the caller reports, written in decimal as a shell does.
GivenExitCodes == {-1, 0, 1, 255}

\* Argument lists that are not "--exit-code N --raw R".
OddArgs ==
    { << >>,
      << FlagRaw, << 115, 115, 104, 32, 104 >> >>,
      << FlagExitCode, << 48 >> >>,
      << FlagExitCode, << 120 >>, FlagRaw, << 115, 115, 104, 32, 104 >> >>,
      << FlagExitCode, << Ch.plus, 48 >>, FlagRaw, << 115, 115, 104, 32, 104 >> >>,
      << FlagRaw, << 115, 115, 104, 32, 104 >>, FlagExitCode >>,
      << FlagRaw >>,
      << << 45, 45, 98, 111, 103, 117, 115 >> >>,
      << FlagRaw, << 115, 115, 104, 32, 104 >>, FlagExitCode, << 48, 48 >> >> }

\* The logs record may find: none, or one record.
RecordLogs == { NoFile, File(HistoryLine(1, 0, << 115, 115, 104, 32, 104 >>)) }

RecordInit ==
    /\ hop = NoOp
    /\ pcmd = NoPickCmd
    /\ sess = NoSess
    /\ tui = NoPick
    /\ tty = NoTty
    /\ obs = NoObs
    /\ afile = NoFile
    /\ aop = NoAliasOp
    /\ exe = NoExec
    /\ tk = NoTok
    /\ b64 = NoCodec
    /\ ProcsIdle
    /\ dirent = [n \in Names |-> 0]
    /\ inodes = << >>
    /\ log0 = << >>
    /\ hlog \in RecordLogs
    /\ clog \in RecordLogs
    /\ \/ \E e \in GivenExitCodes, r \in RawCommands :
            rec = [pc |-> "start", form |-> "given", exit_code |-> e, raw |-> r,
                   args |-> << FlagExitCode, ToDec(e), FlagRaw, r >>,
                   history |-> hlog, commands |-> clog]
       \/ \E a \in OddArgs :
            rec = [pc |-> "start", form |-> "odd", exit_code |-> 0, raw |-> << >>,
                   args |-> a, history |-> hlog, commands |-> clog]

RecordRun ==
    /\ rec.pc = "start"
    /\ \E now1, now2 \in Epochs, io \in {"none", "first", "second"} :
         LET r == CommandRecord(rec.args, hlog, clog, now1, now2, io)
         IN  /\ rec' = [rec EXCEPT !.pc = "done"] @@ [status |-> r.status]
             /\ hlog' = r.history
             /\ clog' = r.commands
    /\ UNCHANGED << hop, fsVars, execVars, tokVars, codecVars, aliasVars, pickVars, pickCmdVars, sessVars >>

RecordNext == RecordRun

SpecRecord == RecordInit /\ [][RecordNext]_vars

\* The raw command, leading white space apart, is "ssh" followed by the end of
\* the string or by white space.
IsSshCommand(raw) ==
    \E i \in 1 .. Len(raw) :
        /\ \A j \in 1 .. i - 1 : raw[j] \in {32, 9, 10, 13}
        /\ i + 2 <= Len(raw)
        /\ SubSeq(raw, i, i + 2) = << 115, 115, 104 >>
        /\ i + 3 <= Len(raw) => raw[i + 3] \in {32, 9, 10, 13}

HasControlChar(raw) == \E i \in 1 .. Len(raw) : raw[i] < 32 \/ raw[i] = 127

LogsUntouched == hlog = rec.history /\ clog = rec.commands

\* C14: record, given an exit code and a raw command, exits with success and
\* leaves both logs as they were unless the exit code is 0 and the raw
\* command is an ssh command; and it never writes a raw command that has a
\* control character.
C14_RecordNoOpUnlessSshSuccess ==
    (rec.pc = "done" /\ rec.form = "given") =>
        /\ ~(rec.exit_code = 0 /\ IsSshCommand(rec.raw)) =>
             rec.status = 0 /\ LogsUntouched
        /\ HasControlChar(rec.raw) => LogsUntouched


(***************************************************************************)
(* The alias store run by one process (specification SpecAliasSeq).        *)
(***************************************************************************)
\* SetAliasForKeyAtPath without I/O failures: an empty key is refused; the
\* file is created if missing, read, and rewritten from the mapping.
SetAliasForKeyAtPath(file, key, alias) ==
    IF key = << >> THEN [ok |-> FALSE, file |-> file]
    ELSE [ok |-> TRUE,
          file |-> File(WriteAliases(SetAliasInContent(file.data, key, alias)))]

\* LoadAliasesFromPath: a missing file is an empty mapping.
LoadAliasesFromPath(file) ==
    IF ~file.exists THEN EmptyAliases ELSE ParseAliasContent(file.data)

\* Keys and aliases of the calls: a key with a tab and a line feed in it, the
\* empty key; the empty alias, which clears.
KeyTabLf == << Ch.tab, 120, Ch.lf >>
SetKeys == {KeyX, KeyTabLf, << >>}
SetAliases == {ValP, ValQ, << >>}

\* The alias files a process may find: none; an empty one; aliases out of
\* key order with a line without a tab between them; an alias followed by
\* its tombstone and by a line with an empty key; an alias set twice.
AliasFiles ==
    { NoFile,
      File(<< >>),
      File(AliasLine(KeyZ, ValR) \o << 65, Ch.lf >> \o AliasLine(KeyX, ValR)),
      File(AliasLine(KeyX, ValR) \o AliasLine(KeyX, << >>) \o AliasLine(<< >>, ValP)),
      File(AliasLine(KeyTabLf, ValP) \o AliasLine(KeyTabLf, ValR)) }

AliasSeqInit ==
    /\ hlog = NoFile
    /\ hop = NoOp
    /\ pcmd = NoPickCmd
    /\ sess = NoSess
    /\ tui = NoPick
    /\ tty = NoTty
    /\ obs = NoObs
    /\ exe = NoExec
    /\ tk = NoTok
    /\ b64 = NoCodec
    /\ clog = NoFile
    /\ rec = NoRecord
    /\ ProcsIdle
    /\ dirent = [n \in Names |-> 0]
    /\ inodes = << >>
    /\ log0 = << >>
    /\ afile \in AliasFiles
    /\ aop = [op |-> "none", calls |-> 0, mapping |-> LoadAliasesFromPath(afile)]

\* The mapping with one SetOrClear applied.
MapApply(mapping, key, alias) ==
    [k \in (DOMAIN mapping \ {key}) \cup (IF alias = << >> THEN {} ELSE {key}) |->
        IF k = key THEN alias ELSE mapping[k]]

\* One call of SetAliasForKeyAtPath.  aop keeps the call, what a load
\* returned before it, whether it repeats the call before it, and the
\* mapping the successful calls amount to.
AliasSet ==
    \E key \in SetKeys, alias \in SetAliases :
        LET r == SetAliasForKeyAtPath(afile, key, alias)
        IN  /\ aop.calls < MaxAliasCalls
            /\ afile' = r.file
            /\ aop' = [op |-> "set", key |-> key, alias |-> alias, ok |-> r.ok,
                       calls |-> aop.calls + 1,
                       before |-> LoadAliasesFromPath(afile),
                       repeats |-> /\ aop.op = "set" /\ aop.ok
                                   /\ aop.key = key /\ aop.alias = alias,
                       mapping |-> IF r.ok THEN MapApply(aop.mapping, key, alias)
                                   ELSE aop.mapping]
    /\ UNCHANGED << histVars, fsVars, execVars, tokVars, codecVars, cmdLogVars,
                    recordVars, pickVars, pickCmdVars, sessVars >>

AliasSeqNext == AliasSet

SpecAliasSeq == AliasSeqInit /\ [][AliasSeqNext]_vars

\* C15: after any sequence of successful SetOrClear calls with non-empty
\* keys, Load returns the mapping obtained by applying them in order to the
\* mapping loaded at the start; a call changes no key but its own; and the
\* same call made twice in a row leaves the mapping as the first left it.
C15_AliasStoreRefinesMap ==
    /\ LoadAliasesFromPath(afile) = aop.mapping
    /\ (aop.op = "set" /\ aop.ok) =>
         /\ aop.key # << >>
         /\ \A k \in (DOMAIN aop.before \cup DOMAIN LoadAliasesFromPath(afile)) \ {aop.key} :
              /\ k \in DOMAIN aop.before
              /\ k \in DOMAIN LoadAliasesFromPath(afile)
              /\ LoadAliasesFromPath(afile)[k] = aop.before[k]
         /\ aop.repeats => LoadAliasesFromPath(afile) = aop.before

\* Three calls on the file with a malformed line: an alias is set for the key
\* with a tab and a line feed, the alias of another key is cleared, and
\* cleared again; the third alias is still there.
C15_Witness ==
    /\ aop.calls = 3 /\ aop.op = "set" /\ aop.ok /\ aop.repeats
    /\ aop.key = KeyX /\ aop.alias = << >>
    /\ KeyX \notin DOMAIN aop.before
    /\ LoadAliasesFromPath(afile) = (KeyZ :> ValR) @@ (KeyTabLf :> ValQ)


(***************************************************************************)
(* The picker: RunPickTui of src/src/tui.cpp, with the terminal it drives. *)
(* The terminal is the environment: every call made on it may fail, and a  *)
(* write may deliver only a prefix of its bytes before it fails.           *)
(***************************************************************************)

\* The longest alias text typed into the prompt.
MaxPromptLen == 2

\* The bytes of the escape sequences the guard writes.
Esc == 27
AltScreenEnter == << Esc, 91, 63, 49, 48, 52, 57, 104 >>
AltScreenLeave == << Esc, 91, 63, 49, 48, 52, 57, 108 >>
CursorHome == << Esc, 91, 72 >>
ClearScreen == << Esc, 91, 50, 74 >>
CursorHide == << Esc, 91, 63, 50, 53, 108 >>
CursorShow == << Esc, 91, 63, 50, 53, 104 >>
ResetStyle == << Esc, 91, 48, 109 >>

\* TerminalUiGuard::EnterScreen's seq and the destructor's seq.
EnterScreenSeq == AltScreenEnter \o CursorHome \o ClearScreen \o CursorHide
LeaveScreenSeq == CursorShow \o ResetStyle \o AltScreenLeave

\* pat occurs in s as a contiguous run of bytes.
HasSeq(s, pat) ==
    \E i \in 1 .. (Len(s) - Len(pat) + 1) : SubSeq(s, i, i + Len(pat) - 1) = pat

\* WriteAll(fd, data): the loop writes until nothing is left or a write()
\* fails with an error other than EINTR.  Its outcomes: everything sent and
\* true, or a proper prefix sent (write() may return a short count before
\* the failing call) and false.
WriteAll(data) ==
    { [ok |-> TRUE, sent |-> data] } \cup
    { [ok |-> FALSE, sent |-> SubSeq(data, 1, k)] : k \in 0 .. (Len(data) - 1) }

\* What the terminal does with the bytes it received: the private modes
\* 1049 (alternate screen) and 25 (cursor) are set or reset by the complete
\* sequences found in them.
TerminalReceive(t, bytes) ==
    [t EXCEPT !.alt = IF HasSeq(bytes, AltScreenEnter) THEN TRUE
                      ELSE IF HasSeq(bytes, AltScreenLeave) THEN FALSE ELSE @,
              !.cursor = IF HasSeq(bytes, CursorHide) THEN FALSE
                         ELSE IF HasSeq(bytes, CursorShow) THEN TRUE ELSE @,
              !.alt_entered = @ \/ HasSeq(bytes, AltScreenEnter)]

\* HasControlChars of tui.cpp.
HasControlChars_None(s) == FALSE
HasControlChars(s) == \E i \in 1 .. Len(s) : s[i] < 32 \/ s[i] = 127

\* GetVisibleCount(total, rows).
GetVisibleCount(total, rows) ==
    LET max_visible == IF rows > 4 THEN rows - 4
                       ELSE IF rows > 0 THEN 1 ELSE 10
    IN  IF total < max_visible THEN total ELSE max_visible

\* The Up and Down arrows of the Browsing state (code 'A' and code 'B').
MoveDown_NoClamp(selected, n) == selected + 1
MoveUp(selected) == IF selected > 0 THEN selected - 1 ELSE selected
MoveDown(selected, n) == IF selected + 1 < n THEN selected + 1 ELSE selected

\* The offset adjustment that follows a key of the Browsing state.
ScrollTo_UpOnly(selected, offset, visible) ==
    IF selected < offset THEN selected ELSE offset
ScrollTo(selected, offset, visible) ==
    IF selected < offset THEN selected
    ELSE IF selected >= offset + visible THEN selected - visible + 1
    ELSE offset

\* The test that opens RunPickTui.
ItemsEmpty_Never(items) == FALSE
ItemsEmpty(items) == Len(items) = 0

\* The item lists given to the picker: none, one item, two items.  An item
\* is its alias text here (the other fields of PickItem are only rendered);
\* the callers leave the alias empty unless it has no control character.
ItemLists ==
    { << >>,
      << [alias |-> << >>] >>,
      << [alias |-> << Ch.loA >>], [alias |-> << >>] >> }

\* The two ways main.cpp configures the picker: pick and pick-command (alias
\* editing, a callback), and delete (no editing, an empty callback).
PickConfigs ==
    { [allow_alias_edit |-> TRUE, allow_display_toggle |-> TRUE,
       show_alias |-> TRUE, alias_update |-> TRUE],
      [allow_alias_edit |-> FALSE, allow_display_toggle |-> TRUE,
       show_alias |-> TRUE, alias_update |-> FALSE] }

\* The terminal heights: one visible row, and room for every item.
TermRows == { 5, 24 }

\* The error texts a failing alias-update callback leaves.
UpdateErrs == { "", "alias store failed" }

\* The calling process's index variable before the call.
IndexUnset == [written |-> FALSE, value |-> 0]

\* RunPickTui when it is entered, and the terminal nobody has opened yet.
StartPick(items, config, index_null) ==
    [pc |-> "start", items |-> items, config |-> config,
     index_null |-> index_null, index |-> IndexUnset,
     selected |-> 0, offset |-> 0,
     show_alias |-> config.show_alias, prompt_active |-> FALSE,
     prompt_input |-> << >>, status |-> "",
     clear_status_on_next_input |-> FALSE,
     raw_active |-> FALSE, screen_active |-> FALSE,
     result |-> "none", err |-> ""]

ClosedTty(rows) ==
    [open |-> FALSE, termios |-> "orig", alt |-> FALSE,
     cursor |-> TRUE, rows |-> rows, calls |-> { },
     alt_entered |-> FALSE, draw_failed |-> FALSE]

PickInitWith(lists) ==
    /\ hlog = NoFile
    /\ hop = NoOp
    /\ pcmd = NoPickCmd
    /\ sess = NoSess
    /\ exe = NoExec
    /\ tk = NoTok
    /\ b64 = NoCodec
    /\ clog = NoFile
    /\ rec = NoRecord
    /\ afile = NoFile
    /\ aop = NoAliasOp
    /\ ProcsIdle
    /\ dirent = [n \in Names |-> 0]
    /\ inodes = << >>
    /\ log0 = << >>
    /\ \E items \in lists, config \in PickConfigs, index_null \in BOOLEAN :
          tui = StartPick(items, config, index_null)
    /\ \E rows \in TermRows : tty = ClosedTty(rows)
    /\ obs = [keys |-> << >>, updates |-> << >>, position |-> 0]

PickInit == PickInitWith(ItemLists)



notPickVars == << histVars, fsVars, execVars, tokVars, codecVars, cmdLogVars,
                  recordVars, aliasVars, pickCmdVars, sessVars >>

\* A return statement of RunPickTui: the result is fixed, the locals of the
\* loop are gone, and the guards are destroyed in the reverse order of
\* their declaration.
Return(t, result) ==
    [t EXCEPT !.pc = "unwind_term", !.result = result,
              !.selected = 0, !.offset = 0, !.show_alias = FALSE,
              !.prompt_active = FALSE, !.prompt_input = << >>, !.status = "",
              !.clear_status_on_next_input = FALSE]

\* RunPickTui up to the open of /dev/tty.
PickStart ==
    /\ tui.pc = "start"
    /\ IF ItemsEmpty(tui.items)
       THEN /\ tui' = [tui EXCEPT !.pc = "returned", !.result = "kCanceled"]
            /\ UNCHANGED tty
       ELSE IF tui.index_null
       THEN /\ tui' = [tui EXCEPT !.pc = "returned", !.result = "kError",
                                  !.err = "index pointer is null"]
            /\ UNCHANGED tty
       ELSE \E opened \in BOOLEAN :
              /\ tty' = [tty EXCEPT !.open = opened, !.calls = @ \cup {"open"}]
              /\ tui' = IF opened THEN [tui EXCEPT !.pc = "raw"]
                        ELSE [tui EXCEPT !.pc = "returned", !.result = "kError",
                                         !.err = "open /dev/tty failed"]
    /\ UNCHANGED << obs, notPickVars, pickCmdVars, sessVars >>

\* TerminalUiGuard::EnableRaw and the return that follows its failure.
EnableRaw ==
    /\ tui.pc = "raw"
    /\ \E got \in BOOLEAN, set \in BOOLEAN :
          IF ~got
          THEN /\ tty' = [tty EXCEPT !.calls = @ \cup {"tcgetattr"}]
               /\ tui' = Return([tui EXCEPT !.err = "tcgetattr failed"], "kError")
          ELSE IF ~set
          THEN /\ tty' = [tty EXCEPT !.calls = @ \cup {"tcgetattr", "tcsetattr_raw"}]
               /\ tui' = Return([tui EXCEPT !.err = "tcsetattr failed"], "kError")
          ELSE /\ tty' = [tty EXCEPT !.calls = @ \cup {"tcgetattr", "tcsetattr_raw"},
                                     !.termios = "raw"]
               /\ tui' = [tui EXCEPT !.raw_active = TRUE, !.pc = "screen"]
    /\ UNCHANGED << obs, notPickVars, pickCmdVars, sessVars >>

\* TerminalUiGuard::EnterScreen and the return that follows its failure.
EnterScreen ==
    /\ tui.pc = "screen"
    /\ \E w \in WriteAll(EnterScreenSeq) :
          /\ tty' = TerminalReceive([tty EXCEPT !.calls = @ \cup {"write"}], w.sent)
          /\ tui' = IF w.ok
                    THEN [tui EXCEPT !.screen_active = TRUE, !.pc = "draw"]
                    ELSE Return([tui EXCEPT !.err = "tty write failed"], "kError")
    /\ UNCHANGED << obs, notPickVars, pickCmdVars, sessVars >>

\* The terminal after a call of the draw lambda: Draw asks the size and
\* writes one frame; ok is what its WriteAll returned.
Drawn(t, ok) ==
    [t EXCEPT !.calls = @ \cup {"ioctl", "write"}, !.draw_failed = @ \/ ~ok]

\* The first draw, whose result is tested.
FirstDraw ==
    /\ tui.pc = "draw"
    /\ \E ok \in BOOLEAN :
          /\ tty' = Drawn(tty, ok)
          /\ tui' = IF ok THEN [tui EXCEPT !.pc = "loop"] ELSE Return(tui, "kError")
    /\ UNCHANGED << obs, notPickVars, pickCmdVars, sessVars >>

\* ~TerminalUiGuard: term was declared after fd_guard, so it goes first.
\* The results of tcsetattr and WriteAll are not looked at.
TerminalUiGuardDtor ==
    /\ tui.pc = "unwind_term"
    /\ \E restored \in BOOLEAN, w \in WriteAll(LeaveScreenSeq) :
          LET t1 == IF tui.raw_active
                    THEN [tty EXCEPT !.calls = @ \cup {"tcsetattr_orig"},
                                     !.termios = IF restored THEN "orig" ELSE @]
                    ELSE tty
              t2 == IF tui.screen_active
                    THEN TerminalReceive([t1 EXCEPT !.calls = @ \cup {"write_leave"}],
                                         w.sent)
                    ELSE t1
          IN  tty' = t2
    /\ tui' = [tui EXCEPT !.pc = "unwind_fd"]
    /\ UNCHANGED << obs, notPickVars, pickCmdVars, sessVars >>

\* ~FdGuard: close(fd).
FdGuardDtor ==
    /\ tui.pc = "unwind_fd"
    /\ tty' = [tty EXCEPT !.open = FALSE, !.calls = @ \cup {"close"}]
    /\ tui' = [tui EXCEPT !.pc = "returned"]
    /\ UNCHANGED << obs, notPickVars, pickCmdVars, sessVars >>



\* ReadByte returned false (read() gave 0 after the VTIME timeout, or failed):
\* a value no byte has.
ReadFailed == 256

\* The bytes the terminal delivers.  Opening an iteration: Ctrl-C, ESC,
\* Enter (CR or LF), backspace (BS or DEL); in Browsing also n, N, S, a; in
\* AliasPrompt also space, a, tab.  After ESC: '[' or 'O' or nothing; after
\* ESC '[': A B C Z or nothing.
CtrlC == 3
EnterBytes == { Ch.cr, Ch.lf }
BackBytes == { Ch.del, 8 }
BrowseBytes == { 110, 78, 83, Ch.loA }
PromptBytes == { Ch.sp, Ch.loA, Ch.tab }
NextBytes == { ReadFailed, 91, 79 }
CodeBytes == { ReadFailed, Ch.upA, 66, 67, Ch.upZ }

\* (items[k] of the code is items[k + 1] here: sequences start at 1.)
\* One iteration of the while loop that ends in `continue`: the locals
\* become t; with draws, draw() ran on the way and its result was dropped.
LoopStep(t, keys, updates, position, draws) ==
    /\ tui' = t
    /\ obs' = [keys |-> keys, updates |-> updates, position |-> position]
    /\ IF draws
       THEN \E ok \in BOOLEAN :
               tty' = Drawn([tty EXCEPT !.calls = @ \cup {"read"}], ok)
       ELSE tty' = [tty EXCEPT !.calls = @ \cup {"read"}]
    /\ UNCHANGED notPickVars

\* An iteration that ends in a return statement.
LoopReturn(t, keys, result) ==
    /\ tui' = Return(t, result)
    /\ obs' = [obs EXCEPT !.keys = keys, !.updates = << >>]
    /\ tty' = [tty EXCEPT !.calls = @ \cup {"read"}]
    /\ UNCHANGED notPickVars

\* The first ReadByte of an iteration fails: continue.
ReadTimeout ==
    /\ tui.pc = "loop"
    /\ LoopStep(tui, << ReadFailed >>, << >>, obs.position, FALSE)

\* prompt_active = false; prompt_input.clear().
ClosePrompt_KeepInput(t) == [t EXCEPT !.prompt_active = FALSE]
ClosePrompt(t) == [t EXCEPT !.prompt_active = FALSE, !.prompt_input = << >>]

\* AliasPrompt, Ctrl-C.
PromptCtrlC ==
    /\ tui.pc = "loop" /\ tui.prompt_active
    /\ LoopStep(ClosePrompt(tui), << CtrlC >>, << >>, obs.position, TRUE)

\* items[selected].alias after the callback returned ok: assigned on
\* success only.
UpdatedAlias_Always(old, alias, ok) == alias
UpdatedAlias(old, alias, ok) == IF ok THEN alias ELSE old

\* The status text after a callback that returned ok with update_err.
UpdateStatus(ok, alias, update_err) ==
    IF ok THEN (IF alias = << >> THEN "alias cleared" ELSE "alias saved")
    ELSE IF update_err = "" THEN "alias failed" ELSE update_err

\* AliasPrompt, Enter or Return.  The callback is the environment: it
\* returns ok and leaves update_err.  The observer keeps what it was called
\* with, and what the prompt held then.
PromptEnter ==
    /\ tui.pc = "loop" /\ tui.prompt_active
    /\ \E c \in EnterBytes :
          LET alias == TrimSpace(tui.prompt_input)
              done(t) == [ClosePrompt(t) EXCEPT !.clear_status_on_next_input = TRUE]
          IN  IF ~tui.config.alias_update
              THEN LoopStep(done([tui EXCEPT !.status = "alias update unavailable"]),
                            << c >>, << >>, obs.position, TRUE)
              ELSE IF HasControlChars(alias)
              THEN LoopStep(done([tui EXCEPT
                                    !.status = "alias rejected: control characters"]),
                            << c >>, << >>, obs.position, TRUE)
              ELSE \E ok \in BOOLEAN, update_err \in UpdateErrs :
                      LoopStep(done([tui EXCEPT
                                  !.items[tui.selected + 1].alias = UpdatedAlias(@, alias, ok),
                                  !.status = UpdateStatus(ok, alias, update_err)]),
                               << c >>,
                               << [index |-> tui.selected,
                                   item |-> tui.items[tui.selected + 1],
                                   alias |-> alias, ok |-> ok,
                                   buffer |-> tui.prompt_input] >>,
                               obs.position, TRUE)

\* AliasPrompt, ESC, with the arrows acting as they do in Browsing.
PromptEscape_Moves ==
    /\ tui.pc = "loop" /\ tui.prompt_active
    /\ \E next \in NextBytes :
          IF next # 91
          THEN LoopStep(ClosePrompt(tui), << Esc, next >>, << >>, obs.position, TRUE)
          ELSE \E code \in CodeBytes :
                  LoopStep([tui EXCEPT !.selected =
                               IF code = Ch.upA THEN MoveUp(@)
                               ELSE IF code = 66 THEN MoveDown(@, Len(tui.items))
                               ELSE @],
                           << Esc, next, code >>, << >>, obs.position,
                           code \in { Ch.upA, 66, Ch.upZ })

\* AliasPrompt, ESC: a bare ESC (or ESC and a byte other than '[') closes
\* the prompt; an arrow or Shift-Tab redraws; anything else is dropped.
PromptEscape ==
    /\ tui.pc = "loop" /\ tui.prompt_active
    /\ \E next \in NextBytes :
          IF next # 91
          THEN LoopStep(ClosePrompt(tui), << Esc, next >>, << >>, obs.position, TRUE)
          ELSE \E code \in CodeBytes :
                  LoopStep(tui, << Esc, next, code >>, << >>, obs.position,
                           code \in { Ch.upA, 66, Ch.upZ })

\* AliasPrompt, DEL or backspace.
PromptBackspace ==
    /\ tui.pc = "loop" /\ tui.prompt_active
    /\ \E c \in BackBytes :
          LoopStep([tui EXCEPT !.prompt_input =
                        IF @ # << >> THEN SubSeq(@, 1, Len(@) - 1) ELSE @],
                   << c >>, << >>, obs.position, TRUE)

\* AliasPrompt, any other byte: appended if printable, dropped if not.
PromptChar ==
    /\ tui.pc = "loop" /\ tui.prompt_active
    /\ \E c \in PromptBytes :
          IF c >= 32 /\ c # 127
          THEN /\ Len(tui.prompt_input) < MaxPromptLen
               /\ LoopStep([tui EXCEPT !.prompt_input = Append(@, c)],
                           << c >>, << >>, obs.position, TRUE)
          ELSE LoopStep(tui, << c >>, << >>, obs.position, FALSE)

\* Browsing: a status shown after an alias update is dropped by the next
\* byte read.
ClearStatus(t) ==
    IF t.clear_status_on_next_input
    THEN [t EXCEPT !.status = "", !.clear_status_on_next_input = FALSE]
    ELSE t

\* The end of a Browsing iteration: the offset follows the selection.
Scrolled(t) ==
    [t EXCEPT !.offset = ScrollTo(t.selected, t.offset,
                                  GetVisibleCount(Len(t.items), tty.rows))]

\* Browsing, Ctrl-C.
BrowseCtrlC ==
    /\ tui.pc = "loop" /\ ~tui.prompt_active
    /\ LoopReturn(ClearStatus(tui), << CtrlC >>, "kCanceled")

\* Browsing, Enter or Return: *index = selected.
BrowseEnter ==
    /\ tui.pc = "loop" /\ ~tui.prompt_active
    /\ \E c \in EnterBytes :
          LoopReturn([ClearStatus(tui) EXCEPT
                         !.index = [written |-> TRUE, value |-> tui.selected]],
                     << c >>, "kSelected")

\* The keys that open the prompt and that toggle the display.
IsAliasKey(t, c) == c \in { 110, 78 } /\ t.config.allow_alias_edit /\ t.config.alias_update
IsToggleKey(t, c) == c = 83 /\ t.config.allow_display_toggle

\* Browsing, n or N with alias editing allowed.
BrowseAliasKey ==
    /\ tui.pc = "loop" /\ ~tui.prompt_active
    /\ \E c \in BrowseBytes :
          /\ IsAliasKey(tui, c)
          /\ LoopStep([ClearStatus(tui) EXCEPT
                          !.prompt_active = TRUE,
                          !.prompt_input = tui.items[tui.selected + 1].alias],
                      << c >>, << >>, obs.position, TRUE)

\* Browsing, S with the display toggle allowed.
BrowseToggle ==
    /\ tui.pc = "loop" /\ ~tui.prompt_active
    /\ \E c \in BrowseBytes :
          /\ ~IsAliasKey(tui, c) /\ IsToggleKey(tui, c)
          /\ LoopStep([ClearStatus(tui) EXCEPT !.show_alias = ~@],
                      << c >>, << >>, obs.position, TRUE)

\* The position an arrow key asks for, kept inside the list.
ClampIndex(x, n) == IF x < 0 THEN 0 ELSE IF x > n - 1 THEN n - 1 ELSE x

\* Browsing, ESC: alone (or followed by anything but '[' and a code) it
\* cancels; ESC [ A and ESC [ B move, ESC [ Z toggles, other codes are
\* dropped.
BrowseEscape ==
    /\ tui.pc = "loop" /\ ~tui.prompt_active
    /\ \E next \in NextBytes :
          IF next # 91
          THEN LoopReturn(ClearStatus(tui), << Esc, next >>, "kCanceled")
          ELSE \E code \in CodeBytes :
            LET t == ClearStatus(tui)
                n == Len(tui.items)
                keys == << Esc, next, code >>
            IN  IF code = ReadFailed THEN LoopReturn(t, keys, "kCanceled")
                ELSE IF code = Ch.upA
                THEN LoopStep(Scrolled([t EXCEPT !.selected = MoveUp(@)]), keys,
                              << >>, ClampIndex(obs.position - 1, n), TRUE)
                ELSE IF code = 66
                THEN LoopStep(Scrolled([t EXCEPT !.selected = MoveDown(@, n)]), keys,
                              << >>, ClampIndex(obs.position + 1, n), TRUE)
                ELSE IF code = Ch.upZ /\ t.config.allow_display_toggle
                THEN LoopStep(Scrolled([t EXCEPT !.show_alias = ~@]), keys,
                              << >>, obs.position, TRUE)
                ELSE LoopStep(t, keys, << >>, obs.position, FALSE)

\* Browsing, any other byte: the frame is drawn again.
BrowseOther ==
    /\ tui.pc = "loop" /\ ~tui.prompt_active
    /\ \E c \in BrowseBytes :
          /\ ~IsAliasKey(tui, c) /\ ~IsToggleKey(tui, c)
          /\ LoopStep(Scrolled(ClearStatus(tui)), << c >>, << >>, obs.position, TRUE)

PickNext ==
    \/ PickStart
    \/ EnableRaw
    \/ EnterScreen
    \/ FirstDraw
    \/ ReadTimeout
    \/ PromptCtrlC
    \/ PromptEnter
    \/ PromptEscape
    \/ PromptBackspace
    \/ PromptChar
    \/ BrowseCtrlC
    \/ BrowseEnter
    \/ BrowseAliasKey
    \/ BrowseToggle
    \/ BrowseEscape
    \/ BrowseOther
    \/ TerminalUiGuardDtor
    \/ FdGuardDtor

SpecPick == PickInit /\ [][PickNext]_vars



\* C16: on every return path taken after raw mode was enabled, the saved
\* terminal settings are applied again, and if the terminal entered the
\* alternate screen the sequence that shows the cursor and leaves the
\* alternate screen is written, both before the descriptor is closed.
C16_TerminalRestoredBeforeClose ==
    "close" \in tty.calls =>
        /\ tui.raw_active => "tcsetattr_orig" \in tty.calls
        /\ tty.alt_entered => "write_leave" \in tty.calls

\* C17: the selection is the position reached from 0 by the arrow keys read
\* so far, each step kept inside [0, n-1]; an iteration of Browsing that
\* reads Enter returns Selected with the index set to the selection, and one
\* that reads Ctrl-C returns Canceled and leaves the index as it was.
C17_BrowseStep ==
    (tui.pc = "loop" /\ ~tui.prompt_active) =>
        /\ tui.selected = obs.position
        /\ tui'.pc = "loop" => tui'.selected = obs'.position
        /\ obs'.keys[1] \in EnterBytes =>
              /\ tui'.pc = "unwind_term" /\ tui'.result = "kSelected"
              /\ tui'.index = [written |-> TRUE, value |-> obs.position]
        /\ obs'.keys[1] = CtrlC =>
              /\ tui'.pc = "unwind_term" /\ tui'.result = "kCanceled"
              /\ tui'.index = tui.index /\ ~tui'.index.written
        /\ obs'.position \in 0 .. (Len(tui.items) - 1)

C17_EnterSelectsCtrlCCancels == [][C17_BrowseStep]_vars

C17_Witness ==
    /\ tui.result = "kSelected"
    /\ tui.index = [written |-> TRUE, value |-> 1]
    /\ obs.position = 1

\* C18: with an empty item list the picker returns Canceled, and no call
\* at all is made on the terminal: it is not opened, its mode is not
\* changed, nothing is read from it or written to it.
C18_EmptyListTouchesNothing ==
    Len(tui.items) = 0 =>
        /\ tui.pc \in { "start", "returned" }
        /\ tui.pc = "returned" => tui.result = "kCanceled"
        /\ tty.calls = { } /\ ~tty.open
        /\ tty.termios = "orig" /\ ~tty.alt /\ tty.cursor

C18_Witness ==
    /\ Len(tui.items) = 0
    /\ tui.pc = "returned"
    /\ tui.result = "kCanceled"
    /\ tty.calls = { }

\* C19: once a frame could not be written to the terminal, by the first
\* draw or by any later one, the picker ends in the Error outcome.
C19_WriteFailureIsError ==
    (tty.draw_failed /\ tui.pc = "returned") => tui.result = "kError"

\* The text without its leading and trailing white space.
Trimmed(s) ==
    LET keep == { i \in 1 .. Len(s) : s[i] \notin WhiteSpace }
    IN  IF keep = { } THEN << >>
        ELSE SubSeq(s, CHOOSE i \in keep : \A j \in keep : i <= j,
                       CHOOSE i \in keep : \A j \in keep : j <= i)

\* C20: an iteration of AliasPrompt that reads Enter calls the alias-update
\* callback exactly once, with the selected item and the trimmed buffer; the
\* item's alias becomes the trimmed buffer if the callback succeeded and
\* stays as it was if not, no other item changes; the picker is in Browsing
\* afterwards with an empty buffer and has not returned.  No other
\* iteration calls the callback, and Selected is returned from Browsing only.
C20_PromptStep ==
    /\ (tui.pc = "loop" /\ tui.prompt_active /\ obs'.keys[1] \in EnterBytes) =>
          LET alias == Trimmed(tui.prompt_input)
              k == tui.selected + 1
          IN  /\ Len(obs'.updates) = 1
              /\ obs'.updates[1].index = tui.selected
              /\ obs'.updates[1].item = tui.items[k]
              /\ obs'.updates[1].alias = alias
              /\ tui'.items = [tui.items EXCEPT ![k].alias =
                                  IF obs'.updates[1].ok THEN alias ELSE @]
              /\ tui'.pc = "loop" /\ tui'.result = "none"
              /\ ~tui'.prompt_active /\ tui'.prompt_input = << >>
              /\ tui'.selected = tui.selected
    /\ (tui.pc = "loop" /\ ~(tui.prompt_active /\ obs'.keys[1] \in EnterBytes)) =>
          /\ obs'.updates = << >>
          /\ tui'.items = tui.items
    /\ (tui.pc = "loop" /\ tui'.result = "kSelected") => ~tui.prompt_active

C20_PromptEnterUpdatesAlias == [][C20_PromptStep]_vars

C20_Witness ==
    /\ Len(obs.updates) = 1
    /\ obs.updates[1].ok
    /\ obs.updates[1].item.alias = << >>
    /\ obs.updates[1].buffer = << Ch.sp, Ch.loA >>
    /\ obs.updates[1].alias = << Ch.loA >>
    /\ tui.items[obs.updates[1].index + 1].alias = << Ch.loA >>
    /\ tui.pc = "loop" /\ ~tui.prompt_active



(***************************************************************************)
(* RunPickTui taken alone, as the function tui.h exports: besides the      *)
(* lists its callers build, a list whose item carries an alias with a      *)
(* control character (BEL), which no caller passes (they drop such an      *)
(* alias before the call) but which the function accepts.                  *)
(***************************************************************************)
ItemListsAny == ItemLists \cup { << [alias |-> << Ch.loA, 7 >>] >> }

PickInitAny == PickInitWith(ItemListsAny)

SpecPickAny == PickInitAny /\ [][PickNext]_vars

\* C21: no iteration calls the alias-update callback with a text holding a
\* control character; the iteration of AliasPrompt that reads Enter while
\* the trimmed buffer holds one calls nothing, sets the rejection status,
\* leaves every alias as it was and continues in Browsing.
C21_PromptStep ==
    tui.pc = "loop" =>
        /\ \A i \in 1 .. Len(obs'.updates) :
              \A j \in 1 .. Len(obs'.updates[i].alias) :
                 obs'.updates[i].alias[j] \notin ControlBytes
        /\ ( /\ tui.prompt_active /\ obs'.keys[1] \in EnterBytes
             /\ \E j \in 1 .. Len(Trimmed(tui.prompt_input)) :
                   Trimmed(tui.prompt_input)[j] \in ControlBytes )
           => /\ obs'.updates = << >>
              /\ tui'.items = tui.items
              /\ tui'.status = "alias rejected: control characters"
              /\ tui'.pc = "loop" /\ tui'.result = "none"
              /\ ~tui'.prompt_active /\ tui'.prompt_input = << >>

C21_NoControlCharsToCallback == [][C21_PromptStep]_vars

C21_Witness ==
    /\ tui.pc = "loop" /\ ~tui.prompt_active
    /\ tui.status = "alias rejected: control characters"
    /\ obs.keys[1] \in EnterBytes /\ obs.updates = << >>
    /\ tui.items = << [alias |-> << Ch.loA, 7 >>] >>

\* C22: the iteration of AliasPrompt that reads Ctrl-C empties the buffer
\* and continues in Browsing: the callback is not called, no alias changes,
\* the picker has not returned.  Ctrl-C read in Browsing is what cancels.
C22_CtrlCStep ==
    (tui.pc = "loop" /\ obs'.keys = << CtrlC >>) =>
        IF tui.prompt_active
        THEN /\ tui'.prompt_input = << >> /\ ~tui'.prompt_active
             /\ obs'.updates = << >>
             /\ tui'.items = tui.items
             /\ tui'.pc = "loop" /\ tui'.result = "none"
             /\ tui'.index = tui.index
        ELSE tui'.pc = "unwind_term" /\ tui'.result = "kCanceled"

C22_PromptCtrlCBacksOut == [][C22_CtrlCStep]_vars

C22_Witness ==
    /\ tui.pc = "loop" /\ obs.keys = << CtrlC >>
    /\ ~tui.prompt_active /\ tui.prompt_input = << >>
    /\ tui.result = "none"



(***************************************************************************)
(* The pick operation: CommandPick of src/src/main.cpp.  Its arguments are *)
(* argv[2..]; it reads the history log and the alias file, and either      *)
(* answers at once (--non-interactive) or runs the picker on the terminal. *)
(***************************************************************************)

\* ExtractArgsFromCommand of normalize.cpp.
ExtractArgsFromCommand(command) ==
    LET trimmed == TrimSpace(command)
    IN  IF trimmed = SshToken THEN << >>
        ELSE IF Len(trimmed) > 3 /\ SubSeq(trimmed, 1, 4) = SshToken \o << Ch.sp >>
        THEN TrimSpace(Tail_(trimmed, 5))
        ELSE << >>

\* ParseSizeArg: no sign, digits to the end of the text (the values here
\* stay far below the largest size_t).
ParseSizeArg(arg) ==
    LET i2 == DigitsEnd(arg, 1)
    IN  IF (Len(arg) >= 1 /\ arg[1] = Ch.minus) \/ i2 = 1 \/ i2 # Len(arg) + 1
        THEN [ok |-> FALSE, val |-> 0]
        ELSE [ok |-> TRUE, val |-> DigitsVal(arg, 1, i2, 0)]

FlagLimit == << 45, 45, 108, 105, 109, 105, 116 >>
FlagSelect == << 45, 45, 115, 101, 108, 101, 99, 116 >>
FlagNonInteractive ==
    << 45, 45, 110, 111, 110, 45, 105, 110, 116, 101, 114, 97, 99, 116, 105, 118, 101 >>

\* The argument loop of CommandPick from argv[i] on.
RECURSIVE PickArgs(_, _, _, _, _)
PickArgs(args, i, limit, non_interactive, select_idx) ==
    LET now(ok) == [ok |-> ok, limit |-> limit,
                    non_interactive |-> non_interactive, select_idx |-> select_idx]
    IN  IF i > Len(args) THEN now(TRUE)
        ELSE IF args[i] = FlagLimit
        THEN IF i + 1 > Len(args) \/ ~ParseSizeArg(args[i + 1]).ok THEN now(FALSE)
             ELSE PickArgs(args, i + 2, ParseSizeArg(args[i + 1]).val,
                           non_interactive, select_idx)
        ELSE IF args[i] = FlagNonInteractive
        THEN PickArgs(args, i + 1, limit, TRUE, select_idx)
        ELSE IF args[i] = FlagSelect
        THEN IF i + 1 > Len(args) \/ ~ParseIntArg(args[i + 1]).ok THEN now(FALSE)
             ELSE PickArgs(args, i + 2, limit, non_interactive,
                           ParseIntArg(args[i + 1]).val)
        ELSE now(FALSE)

\* The loop that builds the items: an entry with a control character, or
\* whose command is not ssh with arguments, gives no item; an alias with a
\* control character is left out.
RECURSIVE PickItems(_, _, _)
PickItems(entries, i, aliases) ==
    IF i > Len(entries) THEN << >>
    ELSE LET command == entries[i].command
             args == ExtractArgsFromCommand(command)
         IN  IF ContainsControlChars(command) \/ args = << >>
                \/ ContainsControlChars(args)
             THEN PickItems(entries, i + 1, aliases)
             ELSE << [args |-> args,
                      alias |-> IF args \in DOMAIN aliases
                                   /\ ~ContainsControlChars(aliases[args])
                                THEN aliases[args] ELSE << >>] >>
                  \o PickItems(entries, i + 1, aliases)

\* std::cout << args << "\n".
PickOutput_NoNewline(args) == args
PickOutput(args) == args \o << Ch.lf >>

\* The end of the pick process.
PickDone(p, status, stdout) ==
    [p EXCEPT !.pc = "done", !.status = status, !.stdout = stdout]

\* The arguments given to pick, and the logs and alias files it finds.
PickLimitArgs == { << >>, << FlagLimit, << 49 >> >>, << FlagLimit, << 45, 49 >> >> }
PickSelectArgs ==
    { << >>, << FlagSelect >>, << FlagSelect, << 120 >> >> }
    \cup { << FlagSelect, t >> : t \in { << 48 >>, << 49 >>, << 50 >>, << 45, 49 >> } }
PickModeArgs == { << >>, << FlagNonInteractive >> }
PickArgv ==
    { l \o m \o t : l \in PickLimitArgs, m \in PickModeArgs, t \in PickSelectArgs }
SshH == SshToken \o << Ch.sp, 104 >>
SshG == SshToken \o << Ch.sp, Ch.sp, 103, Ch.sp >>
SshBel == SshToken \o << Ch.sp, 7 >>
PickLogs ==
    { NoFile, File(<< >>),
      File(HistoryLine(1, 0, SshH)),
      File(HistoryLine(1, 0, SshH) \o HistoryLine(2, 0, SshG)),
      File(HistoryLine(3, 0, SshToken) \o HistoryLine(1, 0, SshH)
              \o HistoryLine(2, 0, SshBel)) }
PickAliasFiles == { NoFile, File(AliasLine(<< 104 >>, << Ch.loA >>)) }

PickCmdInit ==
    /\ hop = NoOp
    /\ exe = NoExec
    /\ tk = NoTok
    /\ b64 = NoCodec
    /\ clog = NoFile
    /\ rec = NoRecord
    /\ aop = NoAliasOp
    /\ ProcsIdle
    /\ dirent = [n \in Names |-> 0]
    /\ inodes = << >>
    /\ log0 = << >>
    /\ hlog \in PickLogs
    /\ afile \in PickAliasFiles
    /\ tui = NoPick
    /\ tty = ClosedTty(5)
    /\ obs = [keys |-> << >>, updates |-> << >>, position |-> 0]
    /\ sess = NoSess
    /\ \E args \in PickArgv :
          pcmd = [pc |-> "start", args |-> args, items |-> << >>,
                  status |-> 0, stdout |-> << >>]

\* CommandPick up to its return in non-interactive mode, or up to the call
\* of RunPickTui.
PickCmdRun ==
    /\ pcmd.pc = "start"
    /\ \E a \in { PickArgs(pcmd.args, 1, 50, FALSE, 0 - 1) } :
       \E items \in { IF a.ok
                      THEN PickItems(LoadRecentUniqueFromPath(hlog, a.limit), 1,
                                     LoadAliasesFromPath(afile))
                      ELSE << >> } :
       \E p \in { [pcmd EXCEPT !.items = items] } :
          IF ~a.ok THEN pcmd' = PickDone(pcmd, 1, << >>) /\ UNCHANGED tui
          ELSE IF items = << >> THEN pcmd' = PickDone(p, 1, << >>) /\ UNCHANGED tui
          ELSE IF a.non_interactive
          THEN /\ UNCHANGED tui
               /\ pcmd' =
                    IF a.select_idx < 0 \/ a.select_idx >= Len(items)
                    THEN PickDone(p, 1, << >>)
                    ELSE IF ContainsControlChars(items[a.select_idx + 1].args)
                    THEN PickDone(p, 1, << >>)
                    ELSE PickDone(p, 0, PickOutput(items[a.select_idx + 1].args))
          ELSE /\ pcmd' = [pcmd EXCEPT !.pc = "tui", !.args = << >>]
               /\ tui' = StartPick(items, CHOOSE c \in PickConfigs : c.allow_alias_edit,
                                   FALSE)
    /\ UNCHANGED << tty, obs, histVars, fsVars, execVars, tokVars, codecVars,
                    cmdLogVars, recordVars, aliasVars, sessVars >>

\* CommandPick after RunPickTui returned.
PickCmdFinish ==
    /\ pcmd.pc = "tui" /\ tui.pc = "returned"
    /\ pcmd' =
         IF tui.result = "kSelected"
         THEN IF tui.index.value >= Len(tui.items) THEN PickDone(pcmd, 1, << >>)
              ELSE IF ContainsControlChars(tui.items[tui.index.value + 1].args)
              THEN PickDone(pcmd, 1, << >>)
              ELSE PickDone(pcmd, 0, PickOutput(tui.items[tui.index.value + 1].args))
         ELSE PickDone(pcmd, 1, << >>)
    /\ UNCHANGED << tui, tty, obs, histVars, fsVars, execVars, tokVars, codecVars,
                    cmdLogVars, recordVars, aliasVars, sessVars >>

PickCmdNext == PickCmdRun \/ PickNext \/ PickCmdFinish

SpecPickCmd == PickCmdInit /\ [][PickCmdNext]_vars



\* C23: pick with --non-interactive writes exactly one line, the argument
\* string of item i, and exits 0 when the arguments parse and
\* 0 <= i < number of pickable items; in every other case it writes nothing
\* to standard output and exits non-zero; and it never starts the picker or
\* touches the terminal.
C23_NonInteractivePick ==
    (pcmd.pc = "done" /\ \E k \in DOMAIN pcmd.args : pcmd.args[k] = FlagNonInteractive)
    => LET a == PickArgs(pcmd.args, 1, 50, FALSE, 0 - 1)
           n == Len(pcmd.items)
       IN  /\ IF a.ok /\ 0 <= a.select_idx /\ a.select_idx < n
              THEN /\ pcmd.status = 0
                   /\ pcmd.stdout = pcmd.items[a.select_idx + 1].args \o << Ch.lf >>
                   /\ \A k \in DOMAIN pcmd.items[a.select_idx + 1].args :
                         pcmd.items[a.select_idx + 1].args[k] # Ch.lf
                   /\ a.limit > 0 => n <= a.limit
              ELSE pcmd.status # 0 /\ pcmd.stdout = << >>
           /\ tui = NoPick
           /\ tty = ClosedTty(5)
           /\ obs.keys = << >>

C23_Witness ==
    /\ pcmd.pc = "done"
    /\ pcmd.args = << FlagNonInteractive, FlagSelect, << 49 >> >>
    /\ Len(pcmd.items) = 2
    /\ pcmd.status = 0
    /\ pcmd.stdout = << 104, Ch.lf >>



(***************************************************************************)
(* A shell session: record, add, delete, list, pick and pick-command run   *)
(* one after the other on the history log (hlog) and the general-command   *)
(* log (clog), each to completion and without I/O failures.                *)
(***************************************************************************)
MaxOps == 3

Quote == 39
Backslash == 92
SshtabPrefix == << 115, 115, 104, 116, 97, 98, Ch.sp >>

\* NeedsSingleQuote and QuoteSingle of main.cpp.
NeedsSingleQuote(arg) ==
    arg = << >> \/ \E k \in DOMAIN arg : arg[k] \in WhiteSpace \/ arg[k] = Quote

RECURSIVE QuoteBody(_, _)
QuoteBody(arg, start) ==
    IF start > Len(arg) THEN << >>
    ELSE IF arg[start] = Quote
    THEN << Quote, Backslash, Quote, Quote >> \o QuoteBody(arg, start + 1)
    ELSE << arg[start] >> \o QuoteBody(arg, start + 1)

QuoteSingle(arg) == << Quote >> \o QuoteBody(arg, 1) \o << Quote >>

\* NormalizeCommandTokens: the tokens, quoted where needed, joined by spaces.
RECURSIVE NormalizeCommandTokensFrom(_, _, _)
NormalizeCommandTokensFrom(tokens, i, command) ==
    IF i > Len(tokens)
    THEN [ok |-> command # << >>, out |-> command]
    ELSE IF ContainsControlChars(tokens[i]) \/ ContainsForbiddenMetachars(tokens[i])
    THEN [ok |-> FALSE, out |-> << >>]
    ELSE LET part == IF NeedsSingleQuote(tokens[i]) THEN QuoteSingle(tokens[i])
                     ELSE tokens[i]
         IN  NormalizeCommandTokensFrom(tokens, i + 1,
                (IF command # << >> THEN command \o << Ch.sp >> ELSE << >>) \o part)

NormalizeCommandTokens(tokens) ==
    IF tokens = << >> THEN [ok |-> FALSE, out |-> << >>]
    ELSE NormalizeCommandTokensFrom(tokens, 1, << >>)

NormalizeCommandRaw(input) ==
    LET trimmed == TrimSpace(input)
    IN  IF trimmed = << >> \/ ContainsControlChars(trimmed)
           \/ ContainsForbiddenMetachars(trimmed)
        THEN [ok |-> FALSE, out |-> << >>]
        ELSE [ok |-> TRUE, out |-> trimmed]

\* command.find_first_not_of(' '), 0 for npos.
RECURSIVE FirstNotSpace(_, _)
FirstNotSpace(s, i) ==
    IF i > Len(s) THEN 0 ELSE IF s[i] # Ch.sp THEN i ELSE FirstNotSpace(s, i + 1)

\* CommandAdd on argv[2..]: the exit status and the general-command log.
CommandAdd(args, commands, now) ==
    LET n == IF Len(args) = 1 THEN NormalizeCommandRaw(args[1])
             ELSE NormalizeCommandTokens(args)
        prefixed == Len(n.out) >= 7 /\ SubSeq(n.out, 1, 7) = SshtabPrefix
        rest == Tail_(n.out, 8)
        command == IF prefixed THEN Tail_(rest, FirstNotSpace(rest, 1)) ELSE n.out
    IN  IF args = << >> \/ ~n.ok \/ (prefixed /\ FirstNotSpace(rest, 1) = 0)
        THEN [status |-> 1, commands |-> commands]
        ELSE [status |-> 0,
              commands |-> AppendHistoryToPath(commands, command, 0, now)]

\* CommandDelete with --index after its call of DeleteHistoryCommand returned
\* r for the command at that rank.
CommandDelete(r, command, history) ==
    IF ~r.ok THEN [status |-> 1, history |-> history, command |-> << >>]
    ELSE [status |-> 0, history |-> r.file, command |-> command]

\* The lines CommandList prints for the entries LoadRecentUnique returned.
CommandList(entries) == [k \in DOMAIN entries |-> entries[k].command]

\* The display strings of the items CommandPick builds from the entries.
PickDisplay(entries) ==
    LET shown == SelectSeq(entries, LAMBDA e : PickItems(<< e >>, 1, << >>) # << >>)
    IN  [k \in DOMAIN shown |-> shown[k].command]

\* The display strings of the items CommandPickCommand builds: the entries
\* of the general-command log, then those of the history log whose command
\* is not among them, sorted, cut at the limit and filtered.
PickCommandDisplay(limit, command_entries, ssh_entries) ==
    LET first == { command_entries[k] : k \in DOMAIN command_entries }
        merged == first \cup { e \in { ssh_entries[k] : k \in DOMAIN ssh_entries } :
                                 \A c \in first : c.command # e.command }
        shown == SelectSeq(Truncate(SortEntries(merged), limit),
                   LAMBDA e : ~ContainsControlChars(e.command)
                              /\ ~ContainsForbiddenMetachars(e.command))
    IN  [k \in DOMAIN shown |-> shown[k].command]

\* What the session's user types.
SessRaws ==
    { SshH, SshToken \o << Ch.sp, 103, 59 >>, << 108, 115 >> }
SessAdds ==
    { << << 108, 115 >> >>, << << 108, 59 >> >>, << << 108 >>, << 97, Ch.sp, Quote >> >>,
      << SshtabPrefix \o << Ch.sp, 108 >> >>, << SshtabPrefix >> , << >> }

SessInit ==
    /\ hop = NoOp
    /\ pcmd = NoPickCmd
    /\ tui = NoPick
    /\ tty = NoTty
    /\ obs = NoObs
    /\ afile = NoFile
    /\ aop = NoAliasOp
    /\ exe = NoExec
    /\ tk = NoTok
    /\ b64 = NoCodec
    /\ rec = NoRecord
    /\ ProcsIdle
    /\ dirent = [n \in Names |-> 0]
    /\ inodes = << >>
    /\ log0 = << >>
    /\ hlog = NoFile
    /\ clog = NoFile
    /\ sess = [op |-> "start", status |-> 0, view |-> << >>, deleted |-> { }, n |-> 0]

SessDone(op, status, view, deleted) ==
    sess' = [op |-> op, status |-> status, view |-> view, deleted |-> deleted,
             n |-> sess.n + 1]

sessOthers ==
    << hop, fsVars, execVars, tokVars, codecVars, recordVars, aliasVars, pickVars,
       pickCmdVars >>

\* sshtab record --exit-code 0 --raw RAW, at clock reading n + 1.
SessRecord ==
    /\ sess.op # "none" /\ sess.n < MaxOps
    /\ \E raw \in SessRaws :
       \E r \in { CommandRecord(<< FlagExitCode, ToDec(0), FlagRaw, raw >>,
                                hlog, clog, sess.n + 1, sess.n + 1, "none") } :
          /\ hlog' = r.history
          /\ clog' = r.commands
          /\ SessDone("record", r.status, << >>,
                      IF r.history # hlog
                      THEN sess.deleted \ { NormalizeSshCommand(raw).out }
                      ELSE sess.deleted)
    /\ UNCHANGED sessOthers

\* sshtab add ARGS.
SessAdd ==
    /\ sess.op # "none" /\ sess.n < MaxOps
    /\ \E args \in SessAdds :
       \E r \in { CommandAdd(args, clog, sess.n + 1) } :
          /\ clog' = r.commands
          /\ SessDone("add", r.status, << >>, sess.deleted)
    /\ UNCHANGED << hlog, sessOthers >>

\* sshtab delete --index I: the entry at rank I of LoadRecentUnique(50) is
\* removed from the history log by DeleteHistoryCommand.
SessDelete ==
    /\ sess.op # "none" /\ sess.n < MaxOps
    /\ \E index \in 0 .. 1 :
       \E entries \in { LoadRecentUniqueFromPath(hlog, 50) } :
          IF entries = << >> \/ index >= Len(entries)
          THEN /\ SessDone("delete", 1, << >>, sess.deleted)
               /\ UNCHANGED hlog
          ELSE \E r \in { CommandDelete(
                             DeleteHistoryCommand(hlog, entries[index + 1].command),
                             entries[index + 1].command, hlog) } :
                  /\ hlog' = r.history
                  /\ SessDone("delete", r.status, << >>,
                              IF r.status = 0 THEN sess.deleted \cup { r.command }
                              ELSE sess.deleted)
    /\ UNCHANGED << clog, sessOthers >>

\* sshtab list, sshtab pick or sshtab pick-command: the view each produces
\* from what LoadRecentUnique and LoadRecentUniqueCommands return.
SessView ==
    /\ sess.op # "none" /\ sess.n < MaxOps
    /\ \E ssh_entries \in { LoadRecentUniqueFromPath(hlog, 50) } :
          \/ SessDone("list", 0, CommandList(ssh_entries), sess.deleted)
          \/ SessDone("pick", 0, PickDisplay(ssh_entries), sess.deleted)
          \/ \E command_entries \in { LoadRecentUniqueFromPath(clog, 50) } :
                SessDone("pick-command", 0,
                         PickCommandDisplay(50, command_entries, ssh_entries),
                         sess.deleted)
    /\ UNCHANGED << hlog, clog, sessOthers >>

SessNext == SessRecord \/ SessAdd \/ SessDelete \/ SessView

SpecSess == SessInit /\ [][SessNext]_vars

\* The commands of the lines of a log.
LogCommands(file) ==
    IF ~file.exists THEN { }
    ELSE LET es == LoadRecentUniqueFromContent(file.data, 0)
         IN  { es[k].command : k \in DOMAIN es }

\* C24: after delete succeeded for a recorded command c, and until c is
\* recorded again, no line of the history log holds c and c is in no view that
\* list, pick or pick-command produces.
C24_DeletedNeverShown ==
    \A c \in sess.deleted :
       /\ c \notin LogCommands(hlog)
       /\ \A k \in DOMAIN sess.view : sess.view[k] # c

\* C25: every command in the general-command log has no control character
\* and none of ; | & ` $ ( ) < >.
C25_CommandLogHasNoMetachars ==
    \A c \in LogCommands(clog) :
       ~ContainsControlChars(c) /\ ~ContainsForbiddenMetachars(c)



(***************************************************************************)
(* DeleteHistoryCommand and SetAliasForKeyAtPath system call by system     *)
(* call, each call failing or not as the environment decides.  One process *)
(* runs one of the two; log0 is the content it found at the path.          *)
(***************************************************************************)
Mutator == "m1"
TmpName == "tmp.XXXXXX"
MutNames == { HistoryPath, AliasPath, TmpName }

MutLogs ==
    InitLogs \cup { HistoryLine(1, 0, CmdA),
                    HistoryLine(1, 0, CmdB) \o HistoryLine(2, 0, CmdA)
                       \o HistoryLine(2, 0, CmdB) }
MutAliasFiles == AliasInitContents \cup { << >> }
MutAliases == { ValP, << >> }

\* unlink(tmp_path).
Unlink_Keep(d, name) == d
Unlink(d, name) == [d EXCEPT ![name] = 0]

\* What follows the scan loop of DeleteHistoryCommand: the "entry not found"
\* return, or fsync of the temporary file before the rename.
DeleteAfterScan_NoFsync(removed_count) ==
    IF removed_count = 0 THEN "notfound" ELSE "rename"
DeleteAfterScan(removed_count) ==
    IF removed_count = 0 THEN "notfound" ELSE "fsync"

\* WriteAllToFd that fails: what reached the file before the failing write().
FailedWrites(data) == { << >>, SubSeq(data, 1, Len(data) - 1) }

MutInit ==
    /\ hlog = NoFile
    /\ hop = NoOp
    /\ pcmd = NoPickCmd
    /\ sess = NoSess
    /\ tui = NoPick
    /\ tty = NoTty
    /\ obs = NoObs
    /\ afile = NoFile
    /\ aop = NoAliasOp
    /\ rec = NoRecord
    /\ clog = NoFile
    /\ b64 = NoCodec
    /\ exe = NoExec
    /\ tk = NoTok
    /\ pc = [p \in { Mutator } |-> "idle"]
    /\ fd = [p \in { Mutator } |-> 0]
    /\ lk = [p \in { Mutator } |-> "none"]
    /\ ret = [p \in { Mutator } |-> << >>]
    /\ \/ /\ loc = [p \in { Mutator } |->
                      [op |-> "delete", path |-> HistoryPath, command |-> CmdB,
                       lines |-> << >>, i |-> 1, removed_count |-> 0, tmp |-> 0,
                       created |-> FALSE, synced |-> FALSE, renamed |-> FALSE]]
          /\ \/ dirent = [n \in MutNames |-> 0] /\ inodes = << >> /\ log0 = << >>
             \/ \E content \in MutLogs :
                  /\ dirent = [n \in MutNames |-> IF n = HistoryPath THEN 1 ELSE 0]
                  /\ inodes = << content >>
                  /\ log0 = content
       \/ /\ \E alias \in MutAliases :
               loc = [p \in { Mutator } |->
                        [op |-> "set", path |-> AliasPath, key |-> KeyX,
                         alias |-> alias, aliases |-> EmptyAliases, tmp |-> 0,
                         created |-> FALSE, synced |-> FALSE, renamed |-> FALSE]]
          /\ \/ dirent = [n \in MutNames |-> 0] /\ inodes = << >> /\ log0 = << >>
             \/ \E content \in MutAliasFiles :
                  /\ dirent = [n \in MutNames |-> IF n = AliasPath THEN 1 ELSE 0]
                  /\ inodes = << content >>
                  /\ log0 = content

mutOthers ==
    << log0, histVars, execVars, tokVars, codecVars, cmdLogVars, recordVars,
       aliasVars, pickVars, pickCmdVars, sessVars >>

\* The state a step of the process leaves.
MutStep(pc1, fd1, lk1, l, r, d, ino) ==
    /\ pc' = [pc EXCEPT ![Mutator] = pc1]
    /\ fd' = [fd EXCEPT ![Mutator] = fd1]
    /\ lk' = [lk EXCEPT ![Mutator] = lk1]
    /\ loc' = [loc EXCEPT ![Mutator] = l]
    /\ ret' = [ret EXCEPT ![Mutator] = r]
    /\ dirent' = d
    /\ inodes' = ino
    /\ UNCHANGED mutOthers

\* A step that only moves on.
MutGo(pc1, l) == MutStep(pc1, fd[Mutator], lk[Mutator], l, ret[Mutator], dirent, inodes)

\* return false: the guards unlock and close.
MutFail(err, d, ino) ==
    MutStep("done", 0, "none", loc[Mutator],
            [ok |-> FALSE, err |-> err, removed |-> 0], d, ino)

\* The next system call of DeleteHistoryCommand.
DeleteStep ==
    LET l == loc[Mutator]
        at(where) == pc[Mutator] = where /\ l.op = "delete"
    IN  \/ /\ at("idle")
           /\ \/ MutFail("open failed", dirent, inodes)
              \/ /\ dirent[HistoryPath] # 0
                 /\ MutStep("lock", dirent[HistoryPath], "none", l, ret[Mutator],
                            dirent, inodes)
        \/ /\ at("lock")
           /\ \/ MutFail("flock failed", dirent, inodes)
              \/ MutStep("read", fd[Mutator], DeleteLockMode, l, ret[Mutator],
                         dirent, inodes)
        \/ /\ at("read")
           /\ \/ MutFail("read failed", dirent, inodes)
              \/ MutGo("mkstemp", [l EXCEPT !.lines = GetLines(inodes[fd[Mutator]])])
        \/ /\ at("mkstemp")
           /\ \/ MutFail("mkstemp failed", dirent, inodes)
              \/ MutStep("scan", fd[Mutator], lk[Mutator],
                         [l EXCEPT !.tmp = Len(inodes) + 1, !.created = TRUE],
                         ret[Mutator],
                         [dirent EXCEPT ![TmpName] = Len(inodes) + 1],
                         Append(inodes, << >>))
        \/ /\ at("scan") /\ l.i <= Len(l.lines)
           /\ IF DropLine(l.lines[l.i], l.command)
              THEN MutGo("scan", [l EXCEPT !.i = @ + 1, !.removed_count = @ + 1])
              ELSE \/ MutStep("scan", fd[Mutator], lk[Mutator], [l EXCEPT !.i = @ + 1],
                              ret[Mutator], dirent,
                              [inodes EXCEPT ![l.tmp] = @ \o l.lines[l.i] \o << Ch.lf >>])
                   \/ \E part \in FailedWrites(l.lines[l.i] \o << Ch.lf >>) :
                        MutFail("write failed", Unlink(dirent, TmpName),
                                [inodes EXCEPT ![l.tmp] = @ \o part])
        \/ /\ at("scan") /\ l.i > Len(l.lines)
           /\ IF DeleteAfterScan(l.removed_count) = "notfound"
              THEN MutFail("entry not found", Unlink(dirent, TmpName), inodes)
              ELSE MutGo(DeleteAfterScan(l.removed_count), l)
        \/ /\ at("fsync")
           /\ \/ MutFail("fsync failed", Unlink(dirent, TmpName), inodes)
              \/ MutGo("rename", [l EXCEPT !.synced = TRUE])
        \/ /\ at("rename")
           /\ \/ MutFail("rename failed", Unlink(dirent, TmpName), inodes)
              \/ MutStep("fsyncdir", fd[Mutator], lk[Mutator],
                         [l EXCEPT !.renamed = TRUE], ret[Mutator],
                         [dirent EXCEPT ![HistoryPath] = l.tmp, ![TmpName] = 0],
                         inodes)
        \/ /\ at("fsyncdir")
           /\ \/ MutFail("fsync dir failed", dirent, inodes)
              \/ MutStep("done", 0, "none", l,
                         [ok |-> TRUE, err |-> "", removed |-> l.removed_count],
                         dirent, inodes)

\* The next system call of SetAliasForKeyAtPath.
SetStep ==
    LET l == loc[Mutator]
        at(where) == pc[Mutator] = where /\ l.op = "set"
    IN  \/ /\ at("idle")
           /\ \/ MutFail("open failed", dirent, inodes)
              \/ IF dirent[AliasPath] # 0
                 THEN MutStep("lock", dirent[AliasPath], "none", l, ret[Mutator],
                              dirent, inodes)
                 ELSE MutStep("lock", Len(inodes) + 1, "none", l, ret[Mutator],
                              [dirent EXCEPT ![AliasPath] = Len(inodes) + 1],
                              Append(inodes, << >>))
        \/ /\ at("lock")
           /\ \/ MutFail("flock failed", dirent, inodes)
              \/ MutStep("read", fd[Mutator], SetLockMode, l, ret[Mutator],
                         dirent, inodes)
        \/ /\ at("read")
           /\ \/ MutFail("read failed", dirent, inodes)
              \/ MutGo("mkstemp",
                       [l EXCEPT !.aliases =
                           SetAliasInContent(inodes[fd[Mutator]], l.key, l.alias)])
        \/ /\ at("mkstemp")
           /\ \/ MutFail("mkstemp failed", dirent, inodes)
              \/ MutStep("write", fd[Mutator], lk[Mutator],
                         [l EXCEPT !.tmp = Len(inodes) + 1, !.created = TRUE],
                         ret[Mutator],
                         [dirent EXCEPT ![TmpName] = Len(inodes) + 1],
                         Append(inodes, << >>))
        \/ /\ at("write")
           /\ \E data \in { WriteAliases(l.aliases) } :
              \/ MutStep("fsync", fd[Mutator], lk[Mutator], l, ret[Mutator], dirent,
                         [inodes EXCEPT ![l.tmp] = data])
              \/ \E part \in FailedWrites(data) :
                    MutFail("write failed", dirent, [inodes EXCEPT ![l.tmp] = part])
        \/ /\ at("fsync")
           /\ \/ MutFail("fsync failed", dirent, inodes)
              \/ MutGo("rename", [l EXCEPT !.synced = TRUE])
        \/ /\ at("rename")
           /\ \/ MutFail("rename failed", Unlink(dirent, TmpName), inodes)
              \/ MutStep("fsyncdir", fd[Mutator], lk[Mutator],
                         [l EXCEPT !.renamed = TRUE], ret[Mutator],
                         [dirent EXCEPT ![AliasPath] = l.tmp, ![TmpName] = 0],
                         inodes)
        \/ /\ at("fsyncdir")
           /\ \/ MutFail("fsync dir failed", dirent, inodes)
              \/ MutStep("done", 0, "none", l, [ok |-> TRUE, err |-> "", removed |-> 0],
                         dirent, inodes)

MutNext == DeleteStep \/ SetStep

SpecMut == MutInit /\ [][MutNext]_vars

\* The content at the path of the operation (none when there is no file), and
\* the content the operation is to leave there.
PathData == IF dirent[loc[Mutator].path] = 0 THEN << >>
            ELSE inodes[dirent[loc[Mutator].path]]

PostData ==
    IF loc[Mutator].op = "delete"
    THEN DeleteScan(GetLines(log0), 1, loc[Mutator].command, << >>, 0).out
    ELSE WriteAliases(SetAliasInContent(log0, loc[Mutator].key, loc[Mutator].alias))

\* C26: at every step of DeleteHistoryCommand and of SetAliasForKeyAtPath the
\* path holds the complete content found before the call or the complete
\* content the call is to leave; the new content is there only once the rename
\* was made, and the renamed file was completely written and fsynced.
C26_AtomicOnDisk ==
    IF loc[Mutator].renamed
    THEN PathData = PostData /\ loc[Mutator].synced
    ELSE PathData = log0

C26_Witness ==
    /\ loc[Mutator].op = "delete"
    /\ pc[Mutator] = "fsyncdir"
    /\ loc[Mutator].renamed
    /\ PathData # log0
    /\ PathData = HistoryLine(1, 0, CmdA)

\* C27: when DeleteHistoryCommand returns failure, the log at its path is as
\* it was before the call and the removed count is 0.
C27_FailedDeleteChangesNothing ==
    (loc[Mutator].op = "delete" /\ pc[Mutator] = "done" /\ ~ret[Mutator].ok)
    => /\ PathData = log0
       /\ ret[Mutator].removed = 0

\* C28: a failure return of DeleteHistoryCommand after its temporary file
\* was created leaves no temporary file in the directory.
C28_FailedDeleteLeavesNoTemp ==
    (loc[Mutator].op = "delete" /\ pc[Mutator] = "done" /\ ~ret[Mutator].ok
        /\ loc[Mutator].created)
    => dirent[TmpName] = 0

C28_Witness ==
    /\ loc[Mutator].op = "delete"
    /\ pc[Mutator] = "done"
    /\ ret[Mutator] = [ok |-> FALSE, err |-> "write failed", removed |-> 0]
    /\ loc[Mutator].created
    /\ inodes[loc[Mutator].tmp] # << >>
    /\ dirent[TmpName] = 0

\* C29: a failure return of SetAliasForKeyAtPath after its temporary file was
\* created leaves no temporary file in the directory.
C29_FailedSetLeavesNoTemp ==
    (loc[Mutator].op = "set" /\ pc[Mutator] = "done" /\ ~ret[Mutator].ok
        /\ loc[Mutator].created)
    => dirent[TmpName] = 0



(***************************************************************************)
(* The locks of concurrent operations.  Every store function opens its     *)
(* file, waits for flock on it, works, and returns, its guards unlocking   *)
(* and closing; an operation is the sequence of the store functions it     *)
(* calls.  lk[p] holds the mode in which p has each file locked, fd[p] the *)
(* file p has open, loc[p].k the call p is in.  Files are told apart by    *)
(* their path.                                                             *)
(***************************************************************************)
CommandsPath == "commands.log"
CommandAliasPath == "command_aliases.log"
LockFiles == { HistoryPath, CommandsPath, AliasPath, CommandAliasPath }

\* One call of a store function: the file, the lock mode, and whether the
\* operation returns when the call fails.
Call(file, mode, must) == [file |-> file, mode |-> mode, must |-> must]

\* The store functions each operation calls, in order.
Program ==
    [ record |-> << Call(HistoryPath, AppendLockMode, TRUE),
                    Call(CommandsPath, AppendLockMode, TRUE) >>,
      list |-> << Call(HistoryPath, LoadLockMode, FALSE) >>,
      pickcommand |-> << Call(CommandsPath, LoadLockMode, FALSE),
                         Call(HistoryPath, LoadLockMode, FALSE),
                         Call(CommandAliasPath, AliasLoadLockMode, FALSE),
                         Call(AliasPath, AliasLoadLockMode, FALSE) >>,
      delete |-> << Call(HistoryPath, LoadLockMode, TRUE),
                    Call(AliasPath, AliasLoadLockMode, FALSE),
                    Call(HistoryPath, DeleteLockMode, TRUE) >>,
      alias |-> << Call(HistoryPath, LoadLockMode, TRUE),
                   Call(AliasPath, SetLockMode, TRUE) >> ]

LockProcs == DOMAIN Program

\* FlockGuard::Unlock.
Unlock_Never(held, file) == held
Unlock(held, file) == [held EXCEPT ![file] = "none"]

\* flock(fd, mode) returns at once: no other process holds the file in a
\* mode that excludes it.
Grantable(p, file, mode) ==
    \A q \in LockProcs \ { p } :
        CASE mode = "sh" -> lk[q][file] # "ex"
          [] OTHER -> lk[q][file] = "none"

LockInit ==
    /\ hlog = NoFile
    /\ hop = NoOp
    /\ pcmd = NoPickCmd
    /\ sess = NoSess
    /\ tui = NoPick
    /\ tty = NoTty
    /\ obs = NoObs
    /\ afile = NoFile
    /\ aop = NoAliasOp
    /\ rec = NoRecord
    /\ clog = NoFile
    /\ b64 = NoCodec
    /\ exe = NoExec
    /\ tk = NoTok
    /\ dirent = [n \in Names |-> 0]
    /\ inodes = << >>
    /\ log0 = << >>
    /\ pc = [p \in LockProcs |-> "call"]
    /\ fd = [p \in LockProcs |-> ""]
    /\ lk = [p \in LockProcs |-> [f \in LockFiles |-> "none"]]
    /\ loc = [p \in LockProcs |-> [k |-> 1]]
    /\ ret = [p \in LockProcs |-> << >>]

lockOthers ==
    << dirent, inodes, log0, histVars, execVars, tokVars, codecVars, cmdLogVars,
       recordVars, aliasVars, pickVars, pickCmdVars, sessVars >>

\* The store function returned ok or not: the file is closed, and the
\* operation goes on with its next call or returns (its exit status is left
\* out).
CallReturned(p, ok) ==
    /\ fd' = [fd EXCEPT ![p] = ""]
    /\ IF (~ok /\ Program[p][loc[p].k].must) \/ loc[p].k = Len(Program[p])
       THEN /\ pc' = [pc EXCEPT ![p] = "done"]
            /\ UNCHANGED loc
       ELSE /\ pc' = [pc EXCEPT ![p] = "call"]
            /\ loc' = [loc EXCEPT ![p].k = @ + 1]

\* open(path): it fails and the function returns, or the function goes on to
\* flock.
LockOpen(p) ==
    /\ pc[p] = "call"
    /\ \/ /\ fd' = [fd EXCEPT ![p] = Program[p][loc[p].k].file]
          /\ pc' = [pc EXCEPT ![p] = "flock"]
          /\ UNCHANGED loc
       \/ CallReturned(p, FALSE)
    /\ UNCHANGED << lk, ret, lockOthers >>

\* LockExclusive or LockShared returns: the lock is held.
LockAcquire(p) ==
    /\ pc[p] = "flock"
    /\ Grantable(p, fd[p], Program[p][loc[p].k].mode)
    /\ lk' = [lk EXCEPT ![p][fd[p]] = Program[p][loc[p].k].mode]
    /\ pc' = [pc EXCEPT ![p] = "locked"]
    /\ UNCHANGED << fd, loc, ret, lockOthers >>

\* The read or the writes under the lock succeed or fail; the function
\* returns, FlockGuard's destructor unlocks and ScopedFd's closes.
LockReturn(p) ==
    /\ pc[p] = "locked"
    /\ lk' = [lk EXCEPT ![p] = Unlock(lk[p], fd[p])]
    /\ \E ok \in BOOLEAN : CallReturned(p, ok)
    /\ UNCHANGED << ret, lockOthers >>

LockNext ==
    \E p \in LockProcs : LockOpen(p) \/ LockAcquire(p) \/ LockReturn(p)

SpecLock == LockInit /\ [][LockNext]_vars

\* Every process goes on when it can, and a process waiting in flock gets
\* the lock if it is free again and again.
SpecLockFair ==
    /\ SpecLock
    /\ \A p \in LockProcs : WF_vars(LockOpen(p) \/ LockReturn(p))
    /\ \A p \in LockProcs : SF_vars(LockAcquire(p))

\* The files p holds a lock on.
Held(p) == { f \in LockFiles : lk[p][f] # "none" }

NoCrossLock ==
    \A p \in LockProcs :
        /\ Cardinality(Held(p)) <= 1
        /\ pc[p] = "locked" => Held(p) = { fd[p] }
        /\ pc[p] # "locked" => Held(p) = { }

\* C30: no operation holds the lock of one file while it holds or waits for
\* the lock of another, every return releases the lock, and every one of the
\* concurrent operations returns in the end.
C30_NoCrossLockAndCompletion ==
    /\ [] NoCrossLock
    /\ <> (\A p \in LockProcs : pc[p] = "done")

C30_Witness ==
    /\ pc["record"] = "locked" /\ loc["record"].k = 2
    /\ pc["pickcommand"] = "flock" /\ fd["pickcommand"] = CommandsPath
    /\ pc["delete"] = "locked" /\ lk["delete"][HistoryPath] = "ex"
    /\ pc["alias"] = "flock" /\ fd["alias"] = HistoryPath



(***************************************************************************)
(* The picker as delete runs it, on three items in a terminal whose height *)
(* changes between two reads: GetTerminalSize is called anew in every      *)
(* iteration.                                                              *)
(***************************************************************************)
ThreeItems == << [alias |-> << Ch.loA >>], [alias |-> << >>], [alias |-> << >>] >>

\* Heights with one visible row, two, and room for every item.
ResizeRows == { 5, 6, 24 }

\* delete's configuration: no alias editing, so the picker stays in Browsing.
PickInitResize ==
    /\ PickInitWith({ ThreeItems })
    /\ ~tui.config.allow_alias_edit

\* The window is resized (TIOCGWINSZ answers another row count from now on).
Resize ==
    /\ tui.pc = "loop"
    /\ \E rows \in ResizeRows \ { tty.rows } : tty' = [tty EXCEPT !.rows = rows]
    /\ UNCHANGED << tui, obs, notPickVars >>

PickResizeNext ==
    \/ PickStart
    \/ EnableRaw
    \/ EnterScreen
    \/ FirstDraw
    \/ ReadTimeout
    \/ BrowseCtrlC
    \/ BrowseEnter
    \/ BrowseToggle
    \/ BrowseEscape
    \/ BrowseOther
    \/ TerminalUiGuardDtor
    \/ FdGuardDtor
    \/ Resize

SpecPickResize == PickInitResize /\ [][PickResizeNext]_vars

\* min(n, max(1, rows - 4)).
VisibleRows(n, rows) == Min(n, IF rows - 4 > 1 THEN rows - 4 ELSE 1)

\* C31: in the loop 0 <= selected < n; an iteration changes selected by at
\* most one and keeps it in range; after an iteration that handled Up or Down
\* offset <= selected < offset + visible, with visible = min(n, max(1, rows-4))
\* for the row count of that iteration.
C31_Step ==
    (tui.pc = "loop" /\ tui'.pc = "loop") =>
        LET n == Len(tui.items)
        IN  /\ tui.selected \in 0 .. (n - 1)
            /\ tui'.selected \in 0 .. (n - 1)
            /\ tui'.selected - tui.selected \in { -1, 0, 1 }
            /\ (obs' # obs /\ obs'.keys \in { << Esc, 91, Ch.upA >>, << Esc, 91, 66 >> }
                  /\ ~tui.prompt_active)
               => /\ tui'.selected =
                        IF obs'.keys[3] = Ch.upA
                        THEN (IF tui.selected = 0 THEN 0 ELSE tui.selected - 1)
                        ELSE (IF tui.selected = n - 1 THEN n - 1 ELSE tui.selected + 1)
                  /\ tui'.offset <= tui'.selected
                  /\ tui'.selected < tui'.offset + VisibleRows(n, tty.rows)

C31_SelectionInViewport == [][C31_Step]_vars

C31_Witness ==
    /\ tui.pc = "loop"
    /\ Len(tui.items) = 3
    /\ tty.rows = 6
    /\ obs.keys = << Esc, 91, 66 >>
    /\ tui.selected = 2
    /\ tui.offset = 1



\* The inputs of Browsing that the specification lists as transitions.
ListedKey(t, keys) ==
    \/ keys \in { << Esc, 91, Ch.upA >>, << Esc, 91, 66 >> }
    \/ keys[1] \in EnterBytes
    \/ keys[1] = CtrlC
    \/ keys[1] \in { 110, 78 } /\ t.config.allow_alias_edit
    \/ keys \in { << 83 >>, << Esc, 91, Ch.upZ >> } /\ t.config.allow_display_toggle

\* What an ignored input leaves alone.
SameView(t, u) ==
    /\ u.pc = "loop"
    /\ u.selected = t.selected
    /\ u.offset = t.offset
    /\ u.show_alias = t.show_alias
    /\ u.items = t.items

\* C32: in Browsing an iteration that read anything but a listed transition
\* does not end the picker and changes neither selection, scroll offset,
\* show_alias nor any item.
C32_Step ==
    (tui.pc = "loop" /\ ~tui.prompt_active /\ obs'.keys # << >>
        /\ obs'.keys[1] # ReadFailed /\ ~ListedKey(tui, obs'.keys))
    => SameView(tui, tui')

C32_OtherInputIgnored == [][C32_Step]_vars



\* ---------------------------------------------------------------------
\* Arrow keys while the alias prompt is open.

PromptArrows == { << Esc, 91, Ch.upA >>, << Esc, 91, 66 >>, << Esc, 91, Ch.upZ >> }

\* C33: an iteration of the loop that starts in AliasPrompt and reads
\* ESC [ A, ESC [ B or ESC [ Z leaves selected, offset, show_alias, the
\* input buffer and the items as they were and stays in AliasPrompt; no
\* iteration that starts in AliasPrompt changes selected, and Enter hands
\* the callback the item at that selection, which is therefore the item
\* selected when the prompt was opened.
C33_Step ==
    /\ (tui.pc = "loop" /\ tui.prompt_active /\ obs' # obs /\ obs'.keys \in PromptArrows) =>
          /\ tui'.selected = tui.selected
          /\ tui'.offset = tui.offset
          /\ tui'.show_alias = tui.show_alias
          /\ tui'.prompt_input = tui.prompt_input
          /\ tui'.items = tui.items
          /\ tui'.prompt_active /\ tui'.pc = "loop"
          /\ obs'.updates = << >>
    /\ (tui.pc = "loop" /\ tui.prompt_active) =>
          /\ tui'.selected = tui.selected
          /\ tui'.prompt_active => tui'.items = tui.items
          /\ \A i \in 1..Len(obs'.updates) :
                /\ obs'.updates[i].index = tui.selected
                /\ obs'.updates[i].item = tui.items[tui.selected + 1]

C33_PromptArrowsChangeNothing == [][C33_Step]_vars

C33_Witness ==
    /\ tui.pc = "loop" /\ tui.prompt_active
    /\ obs.keys = << Esc, 91, 66 >>
    /\ Len(tui.items) >= 2 /\ tui.selected = 0
    /\ tui.prompt_input # << >>


(***************************************************************************)
(* The alias file read and rewritten line by line (specification           *)
(* SpecAliasFold): a file of up to MaxFoldLines lines, loaded once or      *)
(* given to one SetAliasForKeyAtPath call.                                 *)
(***************************************************************************)
MaxFoldLines == 3

\* The lines a file is made of: aliases of two keys, a tombstone, a line
\* with an empty key, a line without a tab, a line whose value and a line
\* whose key is not base64.
FoldLines ==
    { AliasLine(KeyX, ValP),
      AliasLine(KeyX, ValQ),
      AliasLine(KeyX, << >>),
      AliasLine(KeyZ, ValR),
      AliasLine(<< >>, ValP),
      << 65, Ch.lf >>,
      Base64Encode(KeyX) \o << Ch.tab, 33, Ch.lf >>,
      << 33, Ch.tab >> \o Base64Encode(ValP) \o << Ch.lf >> }

RECURSIVE FoldTexts(_)
FoldTexts(n) ==
    IF n = 0 THEN { << >> }
    ELSE FoldTexts(n - 1) \cup { t \o l : t \in FoldTexts(n - 1), l \in FoldLines }

\* The files: none, and every text of the lines, the last line with or
\* without its line feed.
FoldFiles ==
    { NoFile } \cup { File(t) : t \in FoldTexts(MaxFoldLines) }
               \cup { File(SubSeq(t, 1, Len(t) - 1)) : t \in FoldTexts(MaxFoldLines) \ { << >> } }

AliasFoldInit ==
    /\ hlog = NoFile
    /\ hop = NoOp
    /\ pcmd = NoPickCmd
    /\ sess = NoSess
    /\ tui = NoPick
    /\ tty = NoTty
    /\ obs = NoObs
    /\ exe = NoExec
    /\ tk = NoTok
    /\ b64 = NoCodec
    /\ clog = NoFile
    /\ rec = NoRecord
    /\ ProcsIdle
    /\ dirent = [n \in Names |-> 0]
    /\ inodes = << >>
    /\ log0 = << >>
    /\ afile \in FoldFiles
    /\ aop = NoAliasOp

foldOthers ==
    << histVars, fsVars, execVars, tokVars, codecVars, cmdLogVars, recordVars,
       pickVars, pickCmdVars, sessVars >>

\* LoadAliasesFromPath on the file.
FoldLoad ==
    /\ aop.op = "none"
    /\ \E m \in { LoadAliasesFromPath(afile) } :
          aop' = [op |-> "load", mapping |-> m]
    /\ UNCHANGED << afile, foldOthers >>

\* One SetAliasForKeyAtPath call on the file.
FoldSet ==
    /\ aop.op = "none"
    /\ \E key \in SetKeys, alias \in SetAliases :
          \E r \in { SetAliasForKeyAtPath(afile, key, alias) } :
             /\ afile' = r.file
             /\ aop' = [op |-> "set", key |-> key, alias |-> alias, ok |-> r.ok,
                        before |-> afile]
    /\ UNCHANGED foldOthers

AliasFoldNext == FoldLoad \/ FoldSet

SpecAliasFold == AliasFoldInit /\ [][AliasFoldNext]_vars

\* The fields of a line, and the lines that count.
LineKey(line) == Base64Decode(SubSeq(line, 1, Find(line, Ch.tab, 1) - 1))
LineVal(line) == Base64Decode(Tail_(line, Find(line, Ch.tab, 1) + 1))
WellFormedLine(line) ==
    /\ Find(line, Ch.tab, 1) # 0
    /\ LineKey(line).ok /\ LineVal(line).ok
    /\ LineKey(line).out # << >>

\* The lines of a text: the runs of bytes between line feeds.
RECURSIVE SplitLf(_)
SplitLf(t) ==
    IF t = << >> THEN << >>
    ELSE LET e == Find(t, Ch.lf, 1)
         IN  IF e = 0 THEN << t >>
             ELSE << SubSeq(t, 1, e - 1) >> \o SplitLf(Tail_(t, e + 1))

\* The index of the last well-formed line of key k, 0 if there is none.
LastLineOf(lines, k) ==
    LET S == { i \in DOMAIN lines : WellFormedLine(lines[i]) /\ LineKey(lines[i]).out = k }
    IN  IF S = {} THEN 0 ELSE CHOOSE i \in S : \A j \in S : j <= i

\* C34: the mapping a load returns holds, for every key, the value of the
\* last well-formed line of that key if that value is not empty, and does
\* not hold the key otherwise; lines with an empty key, without a tab or
\* with a field that is not base64 are not well-formed and change nothing.
C34_LoadFoldsWithTombstones ==
    aop.op = "load" =>
        LET lines == SplitLf(afile.data)
            keys == { LineKey(lines[i]).out : i \in { j \in DOMAIN lines : WellFormedLine(lines[j]) } }
        IN  /\ DOMAIN aop.mapping \subseteq keys
            /\ \A k \in keys :
                  LET v == LineVal(lines[LastLineOf(lines, k)]).out
                  IN  IF v = << >> THEN k \notin DOMAIN aop.mapping
                      ELSE k \in DOMAIN aop.mapping /\ aop.mapping[k] = v

\* Two aliases of one key and then a line of that key that is not base64.
C34_Witness ==
    /\ aop.op = "load"
    /\ afile.data = AliasLine(KeyX, ValP) \o AliasLine(KeyX, ValQ)
                     \o Base64Encode(KeyX) \o << Ch.tab, 33, Ch.lf >>
    /\ aop.mapping = (KeyX :> ValQ)

\* C35: a successful call leaves a file with one line per key of the
\* mapping it resolved (the loaded mapping with the call applied), the keys
\* ascending, no key and no value empty; a call with an empty key fails
\* and leaves the file, or its absence, as it was.
C35_SetCompactsFile ==
    aop.op = "set" =>
        /\ aop.ok =>
              LET M == MapApply(LoadAliasesFromPath(aop.before), aop.key, aop.alias)
                  lines == SplitLf(afile.data)
              IN  /\ afile.exists
                  /\ Len(lines) = Cardinality(DOMAIN M)
                  /\ afile.data # << >> => afile.data[Len(afile.data)] = Ch.lf
                  /\ \A i \in DOMAIN lines :
                        /\ WellFormedLine(lines[i])
                        /\ LineVal(lines[i]).out # << >>
                        /\ LineKey(lines[i]).out \in DOMAIN M
                        /\ M[LineKey(lines[i]).out] = LineVal(lines[i]).out
                        /\ lines[i] = Base64Encode(LineKey(lines[i]).out) \o << Ch.tab >>
                                         \o Base64Encode(LineVal(lines[i]).out)
                  /\ \A i, j \in DOMAIN lines :
                        i < j => StrLess(LineKey(lines[i]).out, LineKey(lines[j]).out)
        /\ aop.key = << >> => ~aop.ok /\ afile = aop.before
        /\ aop.key # << >> => aop.ok

\* Aliases out of key order around a line without a tab; the alias of the
\* later line is replaced.
C35_Witness ==
    /\ aop.op = "set" /\ aop.ok
    /\ aop.before = File(AliasLine(KeyZ, ValR) \o << 65, Ch.lf >> \o AliasLine(KeyX, ValP))
    /\ aop.key = KeyX /\ aop.alias = ValQ
    /\ afile.data = AliasLine(KeyX, ValQ) \o AliasLine(KeyZ, ValR)


(***************************************************************************)
(* pick-command beside a running record (specification SpecMerge): record  *)
(* appends to the ssh log and then to the command log, add appends to the  *)
(* command log, and pick-command, run by another process, loads both logs  *)
(* at any moment and merges them.                                          *)
(***************************************************************************)
MaxMergeOps == 4

\* The merged map of CommandPickCommand: the entries of the command log,
\* and those of the ssh log whose command the map does not hold yet.
MergeEntries(command_entries, ssh_entries) ==
    LET first == { command_entries[k] : k \in DOMAIN command_entries }
    IN  first \cup { e \in { ssh_entries[k] : k \in DOMAIN ssh_entries } :
                       \A c \in first : c.command # e.command }

MergeRaws == { SshH, SshG }
NoMergeView == [command_entries |-> << >>, ssh_entries |-> << >>, merged |-> { }]

MergeInit ==
    /\ hop = NoOp
    /\ pcmd = NoPickCmd
    /\ tui = NoPick
    /\ tty = NoTty
    /\ obs = NoObs
    /\ afile = NoFile
    /\ aop = NoAliasOp
    /\ exe = NoExec
    /\ tk = NoTok
    /\ b64 = NoCodec
    /\ rec = NoRecord
    /\ ProcsIdle
    /\ dirent = [n \in Names |-> 0]
    /\ inodes = << >>
    /\ log0 = << >>
    /\ hlog = NoFile
    /\ clog = NoFile
    /\ sess = [op |-> "merge", pc |-> "idle", n |-> 0, command |-> << >>,
               view |-> NoMergeView]

\* record --exit-code 0 --raw RAW up to its first append, at clock reading
\* n + 1.
MergeRecordHistory ==
    /\ sess.op = "merge" /\ sess.pc = "idle" /\ sess.n < MaxMergeOps
    /\ \E raw \in MergeRaws :
       \E r \in { CommandRecord(<< FlagExitCode, ToDec(0), FlagRaw, raw >>,
                                hlog, clog, sess.n + 1, sess.n + 1, "second") } :
          /\ hlog' = r.history
          /\ sess' = [sess EXCEPT !.pc = "mid", !.n = @ + 1,
                                  !.command = NormalizeSshCommand(raw).out]
    /\ UNCHANGED << clog, sessOthers >>

\* The second append of record, within the same second.
MergeRecordCommands ==
    /\ sess.op = "merge" /\ sess.pc = "mid"
    /\ clog' = AppendHistoryToPath(clog, sess.command, 0, sess.n)
    /\ sess' = [sess EXCEPT !.pc = "idle"]
    /\ UNCHANGED << hlog, sessOthers >>

\* add "ssh h", at clock reading n + 1.
MergeAdd ==
    /\ sess.op = "merge" /\ sess.pc = "idle" /\ sess.n < MaxMergeOps
    /\ \E r \in { CommandAdd(<< SshH >>, clog, sess.n + 1) } :
          /\ clog' = r.commands
          /\ sess' = [sess EXCEPT !.n = @ + 1]
    /\ UNCHANGED << hlog, sessOthers >>

\* pick-command: both logs loaded and merged.
MergeView ==
    /\ sess.op = "merge"
    /\ \E command_entries \in { LoadRecentUniqueFromPath(clog, 50) } :
       \E ssh_entries \in { LoadRecentUniqueFromPath(hlog, 50) } :
          sess' = [sess EXCEPT !.view =
                     [command_entries |-> command_entries,
                      ssh_entries |-> ssh_entries,
                      merged |-> MergeEntries(command_entries, ssh_entries)]]
    /\ UNCHANGED << hlog, clog, sessOthers >>

MergeNext == MergeRecordHistory \/ MergeRecordCommands \/ MergeAdd \/ MergeView

SpecMerge == MergeInit /\ [][MergeNext]_vars

\* C36: a command held by both lists is represented in the merged list by
\* the entry with the more recent last_used, whichever list it came from.
C36_MostRecentWins ==
    LET v == sess.view
    IN  \A i \in DOMAIN v.command_entries, j \in DOMAIN v.ssh_entries :
          LET c == v.command_entries[i]
              h == v.ssh_entries[j]
          IN  c.command = h.command =>
                \E e \in v.merged :
                   /\ e.command = c.command
                   /\ e.last_used >= c.last_used /\ e.last_used >= h.last_used


(***************************************************************************)
(* Appends after an interrupted append (specification SpecTorn): one       *)
(* append stops after part of its line has been written, the others        *)
(* complete, and the log is loaded.                                        *)
(***************************************************************************)
MaxTornOps == 3

\* What WriteAllToFd leaves of a line when it stops after a write() that
\* took only part of it: a proper prefix, the line feed not written.
TornPrefixes(line) == { SubSeq(line, 1, k) : k \in 1 .. (Len(line) - 1) }

TornInit ==
    /\ hlog = NoFile
    /\ hop = [op |-> "start", n |-> 0, torn |-> FALSE, after |-> { }, result |-> << >>]
    /\ pcmd = NoPickCmd
    /\ sess = NoSess
    /\ tui = NoPick
    /\ tty = NoTty
    /\ obs = NoObs
    /\ afile = NoFile
    /\ aop = NoAliasOp
    /\ rec = NoRecord
    /\ clog = NoFile
    /\ b64 = NoCodec
    /\ exe = NoExec
    /\ tk = NoTok
    /\ ProcsIdle
    /\ dirent = [n \in Names |-> 0]
    /\ inodes = << >>
    /\ log0 = << >>

tornOthers ==
    << fsVars, execVars, tokVars, codecVars, cmdLogVars, recordVars, aliasVars,
       pickVars, pickCmdVars, sessVars >>

\* AppendHistoryToPath returning true, exit code 0, at clock reading n + 1.
TornAppend ==
    /\ hop.op # "none" /\ hop.n < MaxTornOps
    /\ \E c \in Cmds :
          /\ hlog' = AppendHistoryToPath(hlog, c, 0, hop.n + 1)
          /\ hop' = [hop EXCEPT !.op = "append", !.n = @ + 1,
                                !.after = IF hop.torn THEN @ \cup { c } ELSE @]
    /\ UNCHANGED tornOthers

\* AppendHistoryToPath interrupted in WriteAllToFd, once.
TornCut ==
    /\ hop.op # "none" /\ hop.n < MaxTornOps /\ ~hop.torn
    /\ \E c \in Cmds :
       \E part \in TornPrefixes(HistoryLine(hop.n + 1, 0, c)) :
          /\ hlog' = File(hlog.data \o part)
          /\ hop' = [hop EXCEPT !.op = "cut", !.n = @ + 1, !.torn = TRUE]
    /\ UNCHANGED tornOthers

\* LoadRecentUnique.
TornLoad ==
    /\ hop.op \in { "append", "cut" }
    /\ \E r \in { LoadRecentUniqueFromPath(hlog, 50) } :
          hop' = [hop EXCEPT !.op = "load", !.result = r]
    /\ UNCHANGED << hlog, tornOthers >>

TornNext == TornAppend \/ TornCut \/ TornLoad

SpecTorn == TornInit /\ [][TornNext]_vars

\* C37: after an interrupted append left a final record without its line
\* feed, the command of every record appended since with exit code 0 is
\* among the entries LoadRecentUnique returns.
C37_TornRecordHarmsOnlyItself ==
    (hop.op = "load" /\ hop.torn) =>
        \A c \in hop.after : \E k \in DOMAIN hop.result : hop.result[k].command = c


(***************************************************************************)
(* Normalization applied to its own result (specification SpecNorm).       *)
(***************************************************************************)
MaxNormLen == 4

\* NormalizeArgsInput: the arguments of an ssh command line, or the input
\* with its spaces collapsed.
NormalizeArgsInput(input) ==
    LET trimmed == TrimSpace(input)
        n == NormalizeSshCommand(trimmed)
        args == IF n.ok THEN ExtractArgsFromCommand(n.out) ELSE CollapseSpaces(trimmed)
    IN  IF trimmed = << >> THEN [ok |-> FALSE, out |-> << >>]
        ELSE IF args = << >> THEN [ok |-> FALSE, out |-> << >>]
        ELSE [ok |-> TRUE, out |-> args]

\* The raw strings: ssh, or a word that is not ssh, a separator, and up to
\* MaxNormLen bytes of spaces, quotes and a letter.
NormChars == { Ch.sp, Ch.sq, Ch.dq, Ch.loA }
NormHeads == { SshToken \o << Ch.sp >>, << Ch.sp >> \o SshToken \o << Ch.tab >>,
               SshToken, << 115, 99, 112, Ch.sp >> }
NormRaws ==
    { h \o t : h \in NormHeads,
               t \in UNION { [1 .. n -> NormChars] : n \in 0 .. MaxNormLen } }

NormInit ==
    /\ rec = [pc |-> "raw", raw |-> << >>]
    /\ hlog = NoFile
    /\ hop = NoOp
    /\ pcmd = NoPickCmd
    /\ sess = NoSess
    /\ tui = NoPick
    /\ tty = NoTty
    /\ obs = NoObs
    /\ afile = NoFile
    /\ aop = NoAliasOp
    /\ clog = NoFile
    /\ b64 = NoCodec
    /\ exe = NoExec
    /\ tk = NoTok
    /\ ProcsIdle
    /\ dirent = [n \in Names |-> 0]
    /\ inodes = << >>
    /\ log0 = << >>

normOthers ==
    << histVars, fsVars, execVars, tokVars, codecVars, cmdLogVars, aliasVars,
       pickVars, pickCmdVars, sessVars >>

\* NormalizeSshCommand(raw), and the stored result given back to
\* NormalizeSshCommand and to NormalizeArgsInput.
NormStep ==
    /\ rec.pc = "raw"
    /\ \E raw \in NormRaws :
       \E first \in { NormalizeSshCommand(raw) } :
          rec' = [pc |-> "normalized", raw |-> raw, first |-> first,
                  second |-> NormalizeSshCommand(first.out),
                  key |-> ExtractArgsFromCommand(first.out),
                  args |-> NormalizeArgsInput(first.out)]
    /\ UNCHANGED normOthers

NormNext == NormStep

SpecNorm == NormInit /\ [][NormNext]_vars

\* C38: when NormalizeSshCommand accepts a raw string with result s, it
\* accepts s and returns s, and s given as an address resolves to the
\* arguments of s.
C38_NormalizeIdempotent ==
    (rec.pc = "normalized" /\ rec.first.ok) =>
        /\ rec.second.ok /\ rec.second.out = rec.first.out
        /\ rec.key # << >> => (rec.args.ok /\ rec.args.out = rec.key)


(***************************************************************************)
(* pick on a history that record wrote (specification SpecRecPick): up to  *)
(* MaxRecPicks record calls, then pick, interactive or not; what pick      *)
(* prints is what the shell hands to exec.                                 *)
(***************************************************************************)
MaxRecPicks == 2

\* The command lines recorded: ssh h, and ssh g; as the shell hook reports
\* the line ssh g; ls.
SshGSemi == SshToken \o << Ch.sp, 103, Ch.semi >>
RecPickRaws == { SshH, SshGSemi }
RecPickArgv ==
    { << >>, << FlagNonInteractive, FlagSelect, << 48 >> >>,
      << FlagNonInteractive, FlagSelect, << 49 >> >> }

RecPickInit ==
    /\ hop = NoOp
    /\ exe = NoExec
    /\ tk = NoTok
    /\ b64 = NoCodec
    /\ clog = NoFile
    /\ rec = NoRecord
    /\ aop = NoAliasOp
    /\ ProcsIdle
    /\ dirent = [n \in Names |-> 0]
    /\ inodes = << >>
    /\ log0 = << >>
    /\ hlog = NoFile
    /\ afile = NoFile
    /\ tui = NoPick
    /\ tty = ClosedTty(5)
    /\ obs = [keys |-> << >>, updates |-> << >>, position |-> 0]
    /\ sess = NoSess
    /\ \E args \in RecPickArgv :
          pcmd = [pc |-> "history", args |-> args, items |-> << >>,
                  status |-> 0, stdout |-> << >>]

\* sshtab record --exit-code 0 --raw RAW, one second after the last.
RecPickRecord ==
    /\ pcmd.pc = "history"
    /\ \E n \in { Len(GetLines(hlog.data)) } :
          /\ n < MaxRecPicks
          /\ \E raw \in RecPickRaws :
             \E r \in { CommandRecord(<< FlagExitCode, ToDec(0), FlagRaw, raw >>,
                                      hlog, clog, n + 1, n + 1, "none") } :
                hlog' = r.history /\ clog' = r.commands
    /\ UNCHANGED << pcmd, hop, fsVars, execVars, tokVars, codecVars, recordVars,
                    aliasVars, pickVars, sessVars >>

\* sshtab pick is started.
RecPickStart ==
    /\ pcmd.pc = "history"
    /\ pcmd' = [pcmd EXCEPT !.pc = "start"]
    /\ UNCHANGED << histVars, fsVars, execVars, tokVars, codecVars, cmdLogVars,
                    recordVars, aliasVars, pickVars, sessVars >>

RecPickNext == RecPickRecord \/ RecPickStart \/ PickCmdRun \/ PickNext \/ PickCmdFinish

SpecRecPick == RecPickInit /\ [][RecPickNext]_vars

\* C39: the argument string pick prints is one exec accepts: no control
\* character, no forbidden metacharacter, and TokenizeArgs succeeds on it.
C39_PickOutputAcceptedByExec ==
    (pcmd.pc = "done" /\ pcmd.stdout # << >>) =>
        LET args == SubSeq(pcmd.stdout, 1, Len(pcmd.stdout) - 1)
        IN  /\ ~ContainsControlChars(args)
            /\ ~ContainsForbiddenMetachars(args)
            /\ TokenizeArgs(args).ok


\* ---------------------------------------------------------------------
\* The tokens against the input they were cut from.

\* The bytes TokenizeArgs may leave out: quotes, backslashes, white space.
Droppable(c) == c \in { Ch.sq, Ch.dq, Ch.bslash } \/ IsSpaceC(c)

\* s is t with some droppable bytes left out and nothing else changed.
RECURSIVE DropsOnly(_, _)
DropsOnly(s, t) ==
    IF t = << >> THEN s = << >>
    ELSE \/ s # << >> /\ s[1] = t[1] /\ DropsOnly(Tail(s), Tail(t))
         \/ Droppable(t[1]) /\ DropsOnly(s, Tail(t))

\* C40: when TokenizeArgs succeeds every token is non-empty and the tokens
\* put end to end are the input with only quotes, backslashes and white
\* space left out; so the tokens of an input without control characters
\* and forbidden metacharacters contain none.
C40_TokensAreSubsequence ==
    (tk.pc = "done" /\ tk.r.ok) =>
        /\ \A k \in DOMAIN tk.r.out : tk.r.out[k] # << >>
        /\ DropsOnly(Concat(tk.r.out), tk.input)
        /\ (~ContainsControlChars(tk.input) /\ ~ContainsForbiddenMetachars(tk.input)) =>
              \A k \in DOMAIN tk.r.out :
                 /\ ~ContainsControlChars(tk.r.out[k])
                 /\ ~ContainsForbiddenMetachars(tk.r.out[k])

\* An escaped quote, then a pair of quotes with nothing between them.
C40_Witness ==
    /\ tk.pc = "done" /\ tk.r.ok
    /\ tk.input = << Ch.bslash, Ch.sq, Ch.dq, Ch.dq >>
    /\ tk.r.out = << << Ch.sq >> >>

=============================================================================
